---- MODULE Spec2Model ----
(***************************************************************************)
(* Model of the vet_animal_wellness backend: the analytics engine          *)
(* (app/services/analytics.py), the snapshot cache of the dashboard         *)
(* endpoints (app/api/endpoints/dashboard.py) and the golden-dataset        *)
(* verifier (app/api/endpoints/dashboard_golden.py) with the standalone     *)
(* script of the same checks (tests/verify_golden_dataset.py).              *)
(*                                                                         *)
(* Amounts are fixed-point integers: a number n stands for n / Scale.       *)
(* A cell of the raw table is a record [k, v, s]:                           *)
(*   k = "null"  None / absent value                                        *)
(*   k = "nan"   the float NaN                                              *)
(*   k = "num"   an int or float, value v / Scale                           *)
(*   k = "str"   a text, s its characters                                   *)
(***************************************************************************)
EXTENDS Integers, Sequences, FiniteSets, TLC

VARIABLES
    cc_val,     \* clean_currency: the argument val
    cc_out,     \* clean_currency: the returned value
    cc_pc,      \* clean_currency: "off" | "call" | "ret"
    all_rows,   \* verify_golden_dataset: the fetched records, run-length encoded
    vg_out,     \* verify_golden_dataset: what the call ended with
    vg_pc,      \* verify_golden_dataset: "off" | "fetch" | "done"
    vg_edits,   \* how many records the fetched set differs by from its base
    rt_out,     \* tests/verify_golden_dataset.py: what run_tests ended with
    _df_cache,          \* dashboard.py: the held snapshot, NoTable for None
    _last_cache_time,   \* dashboard.py: time of the last successful refresh
    now,                \* time.time()
    remote,             \* rows of the comprobantes table at the source
    pc,                 \* per request: where it is in get_cached_df
    current_time,       \* per request: the local current_time
    fetch_rows,         \* per request: fetch_all_comprobantes' local all_rows
    current_start,      \* per request: fetch_all_comprobantes' local current_start
    got,                \* per request: what get_cached_df ended with
    response,           \* per request: the status code the endpoint answers with
    df,         \* calculate_analytics: the caller's table (the DataFrame passed in)
    df_before,  \* the caller's table as it was when it was passed in
    canon,      \* calculate_analytics: the local df after line 47
    canon2,     \* the preprocessing step (lines 16-47) applied to canon
    result,     \* calculate_analytics: what the call ended with
    an_pc,      \* "off" | "build" | "done" | "again"
    call_arg,   \* a helper function called on its own: the argument
    call_ret,   \* what the helper returned
    call_pc     \* "off" | "build" | "call" | "done"

cleanVars == <<cc_val, cc_out, cc_pc>>
verifyVars == <<all_rows, vg_out, vg_pc, vg_edits, rt_out>>
cacheVars == <<_df_cache, _last_cache_time, now, remote, pc, current_time,
               fetch_rows, current_start, got, response>>
engineVars == <<df, df_before, canon, canon2, result, an_pc>>
callVars == <<call_arg, call_ret, call_pc>>
vars == <<cleanVars, verifyVars, cacheVars, engineVars, callVars>>

\* what a step of one part of the model leaves alone
CleanStep == UNCHANGED <<verifyVars, cacheVars, engineVars, callVars>>
VerifyStep == UNCHANGED <<cleanVars, cacheVars, engineVars, callVars>>
CacheStep == UNCHANGED <<cleanVars, verifyVars, engineVars, callVars, response>>
EngineStep == UNCHANGED <<cleanVars, verifyVars, cacheVars, callVars>>
CallStep == UNCHANGED <<cleanVars, verifyVars, cacheVars, engineVars>>

\* Longest text of a raw amount cell that is enumerated.
MaxLen == 3

RECURSIVE Pow10(_)
Pow10(n) == IF n = 0 THEN 1 ELSE 10 * Pow10(n - 1)

\* One unit of an amount is 1 / Scale: every decimal of a MaxLen text is exact.
Scale == Pow10(MaxLen)

Null == [k |-> "null", v |-> 0, s |-> <<>>]
NaN == [k |-> "nan", v |-> 0, s |-> <<>>]
Num(n) == [k |-> "num", v |-> n, s |-> <<>>]
Str(t) == [k |-> "str", v |-> 0, s |-> t]

\* The characters of the enumerated texts; "x" stands for any other character.
Chars == {"$", " ", ".", ",", "0", "1", "-", "n", "a", "x"}
Digits == {"0", "1"}

Texts == UNION {[1..n -> Chars] : n \in 0..MaxLen}

\* The numbers given as int or float cells (in units of 1 / Scale).
RawNums == {-Scale, 0, 1, Scale \div 10, Scale, 1000 * Scale + Scale \div 2}

RawValues == {Null, NaN} \cup {Num(n) : n \in RawNums} \cup {Str(t) : t \in Texts}

-----------------------------------------------------------------------------
(* str.replace and float() as clean_currency uses them *)

RECURSIVE Remove(_, _)
\* s.replace(c, '') for each character c of cs
Remove(s, cs) ==
    IF s = <<>> THEN <<>>
    ELSE IF Head(s) \in cs THEN Remove(Tail(s), cs)
    ELSE <<Head(s)>> \o Remove(Tail(s), cs)

\* s.replace(a, b)
Replace(s, a, b) == [i \in 1..Len(s) |-> IF s[i] = a THEN b ELSE s[i]]

\* float(s) reads an optional sign first
Unsigned(s) == IF s # <<>> /\ Head(s) = "-" THEN Tail(s) ELSE s
Sign(s) == IF s # <<>> /\ Head(s) = "-" THEN -1 ELSE 1

DotAt(s) == {i \in 1..Len(s) : s[i] = "."}

\* float(s) accepts digits with at most one '.', and at least one digit
IsDecimal(s) ==
    /\ \A i \in 1..Len(s) : s[i] \in Digits \cup {"."}
    /\ Cardinality(DotAt(s)) <= 1
    /\ \E i \in 1..Len(s) : s[i] \in Digits

\* float(s) accepts the literal nan (with or without a sign)
IsNanLiteral(s) == s = <<"n", "a", "n">>

DigitVal(c) == IF c = "1" THEN 1 ELSE 0

RECURSIVE DigitsVal(_)
\* the integer a run of digits denotes
DigitsVal(s) ==
    IF s = <<>> THEN 0
    ELSE 10 * DigitsVal(SubSeq(s, 1, Len(s) - 1)) + DigitVal(s[Len(s)])

\* the value of an unsigned decimal text, in units of 1 / Scale
DecimalVal(s) ==
    IF DotAt(s) = {} THEN DigitsVal(s) * Scale
    ELSE LET d == CHOOSE i \in DotAt(s) : TRUE
             int == SubSeq(s, 1, d - 1)
             frac == SubSeq(s, d + 1, Len(s))
         IN  DigitsVal(int) * Scale + DigitsVal(frac) * Pow10(MaxLen - Len(frac))

\* float(s) raises ValueError
FloatRaises(s) == ~ IsDecimal(Unsigned(s)) /\ ~ IsNanLiteral(Unsigned(s))

\* float(s) when it does not raise
Float(s) ==
    IF IsNanLiteral(Unsigned(s)) THEN NaN
    ELSE Num(Sign(s) * DecimalVal(Unsigned(s)))

\* pd.isna(val)
isna(val) == val.k \in {"null", "nan"}

\* isinstance(val, (int, float)); a NaN float never reaches this test
isinstance_number(val) == val.k = "num"

\* clean_currency_text with the ValueError of float(s) left uncaught
clean_currency_text_uncaught(s) ==
    IF FloatRaises(s) THEN [k |-> "raise", v |-> 0, s |-> <<>>] ELSE Float(s)

\* try: return float(s) except ValueError: return 0
clean_currency_text(s) == IF FloatRaises(s) THEN Num(0) ELSE Float(s)

clean_currency(val) ==
    IF isna(val) \/ val = Str(<<>>) THEN Num(0)
    ELSE IF isinstance_number(val) THEN val
    ELSE clean_currency_text(
             Replace(Remove(val.s, {"$", " ", "."}), ",", "."))

-----------------------------------------------------------------------------
(* SpecClean: clean_currency called on every enumerated raw value *)

CleanOff == cc_val = Null /\ cc_out = Null /\ cc_pc = "off"

NoOutcome == [kind |-> "none", tests |-> <<>>]
NotRun == [kind |-> "none", test |-> ""]

VerifyOff ==
    all_rows = <<>> /\ vg_out = NoOutcome /\ vg_pc = "off" /\ vg_edits = 0 /\ rt_out = NotRun

\* How many requests are made.
NumReq == 2
Req == 1..NumReq

\* _df_cache = None, and the table a fetch has not begun
NoTable == [n |-> -1, last |-> 0, pages |-> 0, by |-> 0]

CacheOff ==
    /\ _df_cache = NoTable
    /\ _last_cache_time = 0
    /\ now = 0
    /\ remote = 0
    /\ pc = [p \in Req |-> "off"]
    /\ current_time = [p \in Req |-> 0]
    /\ fetch_rows = [p \in Req |-> NoTable]
    /\ current_start = [p \in Req |-> 0]
    /\ got = [p \in Req |-> [status |-> 0, df |-> NoTable]]
    /\ response = [p \in Req |-> 0]

\* a DataFrame: its columns and its rows
Table(cols, rows) == [cols |-> cols, rows |-> rows]
NoResult == [kind |-> "none", keys |-> {}, out |-> <<>>]

EngineOff ==
    /\ df = Table({}, <<>>)
    /\ df_before = Table({}, <<>>)
    /\ canon = Table({}, <<>>)
    /\ canon2 = Table({}, <<>>)
    /\ result = NoResult
    /\ an_pc = "off"

CallOff ==
    /\ call_arg = <<>>
    /\ call_ret = <<>>
    /\ call_pc = "off"

CleanInit ==
    /\ cc_val \in RawValues
    /\ cc_out = Null
    /\ cc_pc = "call"
    /\ VerifyOff
    /\ CacheOff
    /\ EngineOff
    /\ CallOff

CleanCall ==
    /\ cc_pc = "call"
    /\ cc_out' = clean_currency(cc_val)
    /\ cc_pc' = "ret"
    /\ UNCHANGED cc_val
    /\ CleanStep

NextClean == CleanCall

SpecClean == CleanInit /\ [][NextClean]_vars

\* the text float() is given: '$', ' ' and '.' removed, ',' turned into '.'
Stripped(val) == Replace(Remove(val.s, {"$", " ", "."}), ",", ".")

-----------------------------------------------------------------------------
(* The golden-dataset verifier, verify_golden_dataset.                     *)
(* A Decimal is [t |-> "dec", u, c]: u + c / 100 with 0 <= c < 100; a JSON  *)
(* null is [t |-> "none"], a key the record lacks is [t |-> "absent"].      *)
(* all_rows is run-length encoded: [row |-> r, n |-> k] is k records r.     *)

Dec(u, c) == [t |-> "dec", u |-> u, c |-> c]
DNone == [t |-> "none", u |-> 0, c |-> 0]
DAbsent == [t |-> "absent", u |-> 0, c |-> 0]

DAdd(a, b) == Dec(a.u + b.u + (a.c + b.c) \div 100, (a.c + b.c) % 100)
DSub(a, b) == Dec(a.u - b.u + (a.c - b.c) \div 100, (a.c - b.c) % 100)
DMul(a, k) == Dec(a.u * k + (a.c * k) \div 100, (a.c * k) % 100)
DPositive(a) == a.u > 0 \/ (a.u = 0 /\ a.c > 0)

\* Decimal('0.00') for None, else Decimal(str(val)): exact for a value of
\* at most two decimals
normalize_decimal(val) == IF val.t = "none" THEN Dec(0, 0) ELSE val

PyNone == "<None>"
Absent == "<absent>"

\* estado.strip().upper() on the estado texts of the model
StripUpper(e) ==
    CASE e = " anulado " -> "ANULADO"
      [] e = "pagado" -> "PAGADO"
      [] OTHER -> e

\* row.get('estado', '')
get_estado(row) == IF row.estado = Absent THEN "" ELSE row.estado

\* r.get('pendiente'): None for a missing key
get_pendiente(row) == IF row.pendiente.t = "absent" THEN DNone ELSE row.pendiente

\* lines 43-46 with the upper() left out
valid_rows_case_sensitive(rows) ==
    SelectSeq(rows, LAMBDA b : get_estado(b.row) # "ANULADO")

\* lines 43-46: the records that are not ANULADO
valid_rows(rows) ==
    SelectSeq(rows, LAMBDA b : StripUpper(get_estado(b.row)) # "ANULADO")

RECURSIVE CountRows(_)
\* len(rows)
CountRows(rows) ==
    IF rows = <<>> THEN 0 ELSE Head(rows).n + CountRows(Tail(rows))

RECURSIVE SumField(_, _)
\* sum(normalize_decimal(r[field]) for r in rows)
SumField(rows, field) ==
    IF rows = <<>> THEN Dec(0, 0)
    ELSE DAdd(DMul(normalize_decimal(Head(rows).row[field]), Head(rows).n),
              SumField(Tail(rows), field))

\* lines 99-103 without the fallback to fecha_emision
YearOf_source_only(row) == row.source_year

\* lines 99-103: source_year, else the first four characters of fecha_emision;
\* 0 stands for None (and is as falsy)
YearOf(row) == IF row.source_year # 0 THEN row.source_year ELSE row.fecha_year

\* lines 98-116: annual_stats[year], or "missing" for annual_stats.get(year) = None
annual_stats(rows, year) ==
    LET of_year == SelectSeq(rows, LAMBDA b : YearOf(b.row) = year)
    IN  IF year = 0 \/ of_year = <<>> THEN [missing |-> TRUE, count |-> 0,
            facturado |-> Dec(0, 0), pagado |-> Dec(0, 0), pendiente |-> Dec(0, 0)]
        ELSE [missing |-> FALSE, count |-> CountRows(of_year),
              facturado |-> SumField(of_year, "facturado"),
              pagado |-> SumField(of_year, "pagado"),
              pendiente |-> SumField(of_year, "pendiente")]

expected_count == 6296
expected_pagado_count == 6285
expected_pendiente_count == 11
expected_facturado == Dec(246404811, 64)
expected_pagado == Dec(246085710, 64)
expected_pendiente == Dec(319100, 90)
expected_invariant == Dec(0, 10)

expected_years == {2022, 2023, 2024, 2025}

expected_annual(year) ==
    CASE year = 2022 -> [count |-> 49, facturado |-> Dec(1923180, 0),
                         pagado |-> Dec(1923180, 0), pendiente |-> Dec(0, 0)]
      [] year = 2023 -> [count |-> 1302, facturado |-> Dec(55458499, 90),
                         pagado |-> Dec(55458499, 90), pendiente |-> Dec(0, 0)]
      [] year = 2024 -> [count |-> 2350, facturado |-> Dec(89765761, 64),
                         pagado |-> Dec(89765761, 64), pendiente |-> Dec(0, 0)]
      [] year = 2025 -> [count |-> 2595, facturado |-> Dec(99257370, 10),
                         pagado |-> Dec(98938269, 10), pendiente |-> Dec(319100, 90)]

target_comprobante == "BOLETA: 001 - 004865"

PassIf(b) == IF b THEN "PASS" ELSE "FAIL"

\* a total compared after rounding both sides down to whole units
DecimalEqualRounded(actual, expected) == actual.u = expected.u

\* total == expected on two Decimals: exact
DecimalEqual(actual, expected) == actual = expected

\* lines 131-145: year_pass of one expected year
year_pass(rows, year) ==
    LET actual == annual_stats(rows, year)
        stats == expected_annual(year)
    IN  /\ ~ actual.missing
        /\ actual.count = stats.count
        /\ DecimalEqual(actual.facturado, stats.facturado)
        /\ DecimalEqual(actual.pagado, stats.pagado)
        /\ DecimalEqual(actual.pendiente, stats.pendiente)

\* lines 161-164
states_pass(rows) ==
    LET pagado_count ==
            CountRows(SelectSeq(rows, LAMBDA b : StripUpper(get_estado(b.row)) = "PAGADO"))
        pendiente_count ==
            CountRows(SelectSeq(rows, LAMBDA b : StripUpper(get_estado(b.row)) = "PENDIENTE"))
    IN  /\ pagado_count = expected_pagado_count
        /\ pendiente_count = expected_pendiente_count
        /\ pagado_count + pendiente_count = expected_count

\* lines 174-178
cxc_pass(rows) ==
    LET cxc_rows ==
            SelectSeq(rows, LAMBDA b : DPositive(normalize_decimal(get_pendiente(b.row))))
    IN  /\ CountRows(cxc_rows) = 11
        /\ DecimalEqual(SumField(cxc_rows, "pendiente"), expected_pendiente)

\* the anchor check passing when no record has the anchor's comprobante
anchor_pass_if_found(rows) ==
    LET found == SelectSeq(rows, LAMBDA b : b.row.comprobante = target_comprobante)
    IN  \/ found = <<>>
        \/ LET anchor_record == Head(found).row
               ar_facturado == normalize_decimal(anchor_record.facturado)
               ar_pagado == normalize_decimal(anchor_record.pagado)
               ar_pendiente == normalize_decimal(anchor_record.pendiente)
               ar_delta == DSub(ar_facturado, DAdd(ar_pagado, ar_pendiente))
           IN  /\ ar_facturado = Dec(623400, 10)
               /\ ar_pagado = Dec(623400, 0)
               /\ ar_pendiente = Dec(0, 0)
               /\ ar_delta = Dec(0, 10)

\* lines 188-205: the first record with the anchor's comprobante, if any
anchor_pass(rows) ==
    LET found == SelectSeq(rows, LAMBDA b : b.row.comprobante = target_comprobante)
    IN  /\ found # <<>>
        /\ LET anchor_record == Head(found).row
               ar_facturado == normalize_decimal(anchor_record.facturado)
               ar_pagado == normalize_decimal(anchor_record.pagado)
               ar_pendiente == normalize_decimal(anchor_record.pendiente)
               ar_delta == DSub(ar_facturado, DAdd(ar_pagado, ar_pendiente))
           IN  /\ ar_facturado = Dec(623400, 10)
               /\ ar_pagado = Dec(623400, 0)
               /\ ar_pendiente = Dec(0, 0)
               /\ ar_delta = Dec(0, 10)

\* What makes the body raise, which line 222 turns into HTTPException(500):
\* None.strip() at line 45 (estado present and null), r['facturado'] etc. at
\* lines 61-63 and 114-116 on a record that lacks the key.
verify_raises(rows) ==
    \/ \E i \in 1..Len(rows) : rows[i].row.estado = PyNone
    \/ \E i \in 1..Len(valid_rows(rows)) :
          LET r == valid_rows(rows)[i].row
          IN  "absent" \in {r.facturado.t, r.pagado.t, r.pendiente.t}

TestNames == {"test_1", "test_2", "test_3", "test_4", "test_5",
              "test_6", "test_7", "test_8", "test_9"}

\* lines 42-220: the results dict
verify_results(rows) ==
    LET valid == valid_rows(rows)
        total_facturado == SumField(valid, "facturado")
        total_pagado == SumField(valid, "pagado")
        total_pendiente == SumField(valid, "pendiente")
        invariant == DSub(total_facturado, DAdd(total_pagado, total_pendiente))
    IN  [name \in TestNames |->
            CASE name = "test_1" -> PassIf(CountRows(valid) = expected_count)
              [] name = "test_2" -> PassIf(DecimalEqual(total_facturado, expected_facturado))
              [] name = "test_3" -> PassIf(DecimalEqual(total_pagado, expected_pagado))
              [] name = "test_4" -> PassIf(DecimalEqual(total_pendiente, expected_pendiente))
              [] name = "test_5" -> PassIf(DecimalEqual(invariant, expected_invariant))
              [] name = "test_6" -> PassIf(\A y \in expected_years : year_pass(valid, y))
              [] name = "test_7" -> PassIf(states_pass(valid))
              [] name = "test_8" -> PassIf(cxc_pass(valid))
              [] name = "test_9" -> PassIf(anchor_pass(valid))]

\* lines 15-225: the results, or the HTTPException of the except clause
verify_golden_dataset(rows) ==
    IF verify_raises(rows) THEN [kind |-> "http500", tests |-> <<>>]
    ELSE [kind |-> "results", tests |-> verify_results(rows)]

-----------------------------------------------------------------------------
(* The standalone script tests/verify_golden_dataset.py. Its fetch, its     *)
(* normalize_decimal and its filters and sums are the same code as the      *)
(* endpoint's; it asserts where the endpoint records PASS or FAIL, and so   *)
(* stops at the first assertion that fails.                                 *)

AssertionError(test) == [kind |-> "assert", test |-> test]
UnexpectedError == [kind |-> "error", test |-> ""]
AllPassed == [kind |-> "passed", test |-> ""]

\* script lines 105-127: annual_stats.get(year); a record without a year is
\* accumulated too, under the key None
rt_annual_stats(rows, year) ==
    LET of_year == SelectSeq(rows, LAMBDA b : YearOf(b.row) = year)
    IN  IF of_year = <<>> THEN [missing |-> TRUE, count |-> 0,
            facturado |-> Dec(0, 0), pagado |-> Dec(0, 0), pendiente |-> Dec(0, 0)]
        ELSE [missing |-> FALSE, count |-> CountRows(of_year),
              facturado |-> SumField(of_year, "facturado"),
              pagado |-> SumField(of_year, "pagado"),
              pendiente |-> SumField(of_year, "pendiente")]

\* script lines 136-142: the five assertions on one expected year hold
rt_year_asserts(rows, year) ==
    LET actual == rt_annual_stats(rows, year)
        stats == expected_annual(year)
    IN  /\ ~ actual.missing
        /\ actual.count = stats.count
        /\ actual.facturado = stats.facturado
        /\ actual.pagado = stats.pagado
        /\ actual.pendiente = stats.pendiente

\* script lines 177-196: the anchor record is found and has its amounts
rt_anchor_asserts(rows) ==
    LET found == SelectSeq(rows, LAMBDA b : b.row.comprobante = target_comprobante)
    IN  /\ found # <<>>
        /\ LET anchor_record == Head(found).row
               ar_facturado == normalize_decimal(anchor_record.facturado)
               ar_pagado == normalize_decimal(anchor_record.pagado)
               ar_pendiente == normalize_decimal(anchor_record.pendiente)
           IN  /\ ar_facturado = Dec(623400, 10)
               /\ ar_pagado = Dec(623400, 0)
               /\ ar_pendiente = Dec(0, 0)
               /\ DSub(ar_facturado, DAdd(ar_pagado, ar_pendiente)) = Dec(0, 10)

\* script lines 47-202: run_tests on the fetched rows, statement by statement
run_tests(rows) ==
    IF \E i \in 1..Len(rows) : rows[i].row.estado = PyNone
    THEN UnexpectedError                                  \* line 56: None.strip()
    ELSE
    LET valid == valid_rows(rows)
        total_facturado == SumField(valid, "facturado")
        total_pagado == SumField(valid, "pagado")
        total_pendiente == SumField(valid, "pendiente")
        invariant == DSub(total_facturado, DAdd(total_pagado, total_pendiente))
        pagado_count ==
            CountRows(SelectSeq(valid, LAMBDA b : StripUpper(get_estado(b.row)) = "PAGADO"))
        pendiente_count ==
            CountRows(SelectSeq(valid, LAMBDA b : StripUpper(get_estado(b.row)) = "PENDIENTE"))
        cxc_rows ==
            SelectSeq(valid, LAMBDA b : DPositive(normalize_decimal(get_pendiente(b.row))))
    IN  IF CountRows(valid) # 6296 THEN AssertionError("test_1")
        ELSE IF \E i \in 1..Len(valid) :
                    "absent" \in {valid[i].row.facturado.t, valid[i].row.pagado.t,
                                  valid[i].row.pendiente.t}
        THEN UnexpectedError                              \* lines 71-73: KeyError
        ELSE IF total_facturado # expected_facturado THEN AssertionError("test_2")
        ELSE IF total_pagado # expected_pagado THEN AssertionError("test_3")
        ELSE IF total_pendiente # expected_pendiente THEN AssertionError("test_4")
        ELSE IF invariant # expected_invariant THEN AssertionError("test_5")
        ELSE IF \E y \in expected_years : ~ rt_year_asserts(valid, y)
        THEN AssertionError("test_6")
        ELSE IF ~ /\ pagado_count = 6285
                  /\ pendiente_count = 11
                  /\ pagado_count + pendiente_count = 6296
        THEN AssertionError("test_7")
        ELSE IF ~ /\ CountRows(cxc_rows) = 11
                  /\ SumField(cxc_rows, "pendiente") = expected_pendiente
        THEN AssertionError("test_8")
        ELSE IF ~ rt_anchor_asserts(valid) THEN AssertionError("test_9")
        ELSE AllPassed

-----------------------------------------------------------------------------
(* SpecVerify: the verifier on the reference dataset, on the empty set, and *)
(* on either with records added or missing                                  *)

Row(e, f, p, pe, sy, fy, comp) ==
    [estado |-> e, facturado |-> f, pagado |-> p, pendiente |-> pe,
     source_year |-> sy, fecha_year |-> fy, comprobante |-> comp]

Paid(amount, sy, fy) == Row("PAGADO", amount, amount, Dec(0, 0), sy, fy, "B1")
Owed(amount, sy, fy) == Row("PENDIENTE", amount, DNone, amount, sy, fy, "B2")

\* A record set with the reference totals of the verifier.
Golden == <<
    [row |-> Paid(Dec(40000, 0), 2022, 2022), n |-> 48],
    [row |-> Paid(Dec(3180, 0), 0, 2022), n |-> 1],
    [row |-> Paid(Dec(42000, 0), 2023, 2023), n |-> 1301],
    [row |-> Paid(Dec(816499, 90), 2023, 0), n |-> 1],
    [row |-> Paid(Dec(38000, 0), 0, 2024), n |-> 2349],
    [row |-> Paid(Dec(503761, 64), 2024, 2024), n |-> 1],
    [row |-> Paid(Dec(38000, 0), 2025, 2025), n |-> 2582],
    [row |-> Paid(Dec(198869, 10), 2025, 2025), n |-> 1],
    [row |-> Row("PAGADO", Dec(623400, 10), Dec(623400, 0), Dec(0, 0), 2025, 2025,
                 target_comprobante), n |-> 1],
    [row |-> Owed(Dec(29000, 0), 2025, 2025), n |-> 10],
    [row |-> Owed(Dec(29100, 90), 0, 2025), n |-> 1] >>

\* The records a fetched set may hold besides.
ExtraRows == {
    Row(" anulado ", Dec(100, 0), Dec(100, 0), Dec(0, 0), 2025, 2025, "B3"),
    Row("ANULADO", DAbsent, DNone, DNone, 2025, 2025, target_comprobante),
    Row(PyNone, Dec(100, 0), Dec(100, 0), Dec(0, 0), 2025, 2025, "B3"),
    Row(Absent, DNone, DNone, DNone, 2024, 2024, "B3"),
    Row("PAGADO", DAbsent, Dec(0, 0), Dec(0, 0), 2025, 2025, "B3"),
    Row("PAGADO", Dec(0, 1), Dec(0, 1), DNone, 2025, 2025, "B3"),
    Row("pagado", Dec(0, 99), Dec(0, 99), Dec(0, 0), 2021, 2021, "B3"),
    Row("PAGADO", DNone, DNone, DNone, 0, 0, "B3"),
    Row("PENDIENTE", Dec(0, 1), Dec(0, 0), Dec(0, 1), 0, 2023, "B3"),
    Row("PAGADO", Dec(623400, 10), Dec(623400, 10), Dec(0, 0), 2022, 2022,
        target_comprobante),
    Paid(Dec(40000, 0), 2021, 2021),
    Row("VIGENTE", Dec(40000, 0), Dec(40000, 0), Dec(0, 0), 2022, 2022, "B1"),
    Row("PAGADO", Dec(623400, 10), Dec(623400, 0), Dec(0, 0), 2025, 2025, "B3") }

\* How many records are added to or missing from the base set.
MaxEdits == 2

VerifyInit ==
    /\ all_rows \in {<<>>, Golden}
    /\ vg_out = NoOutcome
    /\ vg_pc = "fetch"
    /\ vg_edits = 0
    /\ rt_out = NotRun
    /\ CleanOff
    /\ CacheOff
    /\ EngineOff
    /\ CallOff

\* one more record in the fetched set, before or after the others (the order
\* of the records matters only to the search for the first anchor record)
VerifyFetchExtra ==
    /\ vg_pc = "fetch"
    /\ vg_edits < MaxEdits
    /\ \E r \in ExtraRows, i \in {0, Len(all_rows)} :
          all_rows' = SubSeq(all_rows, 1, i) \o <<[row |-> r, n |-> 1]>>
                          \o SubSeq(all_rows, i + 1, Len(all_rows))
    /\ vg_edits' = vg_edits + 1
    /\ UNCHANGED <<vg_out, vg_pc, rt_out>>
    /\ VerifyStep

\* one record less in the fetched set
VerifyFetchLess ==
    /\ vg_pc = "fetch"
    /\ vg_edits < MaxEdits
    /\ \E i \in 1..Len(all_rows) :
          all_rows' =
              IF all_rows[i].n > 1
              THEN [all_rows EXCEPT ![i].n = @ - 1]
              ELSE SubSeq(all_rows, 1, i - 1) \o SubSeq(all_rows, i + 1, Len(all_rows))
    /\ vg_edits' = vg_edits + 1
    /\ UNCHANGED <<vg_out, vg_pc, rt_out>>
    /\ VerifyStep

\* the body of verify_golden_dataset on the fetched set
VerifyRun ==
    /\ vg_pc = "fetch"
    /\ vg_out' = verify_golden_dataset(all_rows)
    /\ vg_pc' = "done"
    /\ UNCHANGED <<all_rows, vg_edits, rt_out>>
    /\ VerifyStep

\* tests/verify_golden_dataset.py run on the same fetched set
ScriptRun ==
    /\ vg_pc = "done"
    /\ rt_out = NotRun
    /\ rt_out' = run_tests(all_rows)
    /\ UNCHANGED <<all_rows, vg_out, vg_pc, vg_edits>>
    /\ VerifyStep

NextVerify == VerifyFetchExtra \/ VerifyFetchLess \/ VerifyRun \/ ScriptRun

SpecVerify == VerifyInit /\ [][NextVerify]_vars

\* the records of the fetched set that count: estado, trimmed and upper-cased,
\* is not ANULADO (a missing estado reads as the empty text)
NotCancelled == {i \in 1..Len(all_rows) : StripUpper(get_estado(all_rows[i].row)) # "ANULADO"}

RECURSIVE SumOver(_, _)
\* the sum of f[i] over the i of S
SumOver(S, f) ==
    IF S = {} THEN 0
    ELSE LET i == CHOOSE j \in S : TRUE IN f[i] + SumOver(S \ {i}, f)

\* whole units and hundredths of a field's total, each added up on its own
UnitsOf(field) ==
    SumOver(NotCancelled,
            [i \in NotCancelled |->
                IF all_rows[i].row[field].t = "dec"
                THEN all_rows[i].n * all_rows[i].row[field].u ELSE 0])
CentsOf(field) ==
    SumOver(NotCancelled,
            [i \in NotCancelled |->
                IF all_rows[i].row[field].t = "dec"
                THEN all_rows[i].n * all_rows[i].row[field].c ELSE 0])

\* the total of a field is exactly units + cents / 100
TotalIs(field, units, cents) ==
    /\ CentsOf(field) % 100 = cents
    /\ UnitsOf(field) + CentsOf(field) \div 100 = units

\* sum(facturado) - (sum(pagado) + sum(pendiente)) is exactly cents / 100
ResidualIs(cents) ==
    LET du == UnitsOf("facturado") - UnitsOf("pagado") - UnitsOf("pendiente")
        dc == CentsOf("facturado") - CentsOf("pagado") - CentsOf("pendiente")
    IN  dc % 100 = cents /\ du + dc \div 100 = 0

\* every estado is a text (or missing) and every counted record has its amounts
VerifyInputShaped ==
    /\ \A i \in 1..Len(all_rows) : all_rows[i].row.estado # PyNone
    /\ \A i \in NotCancelled :
          "absent" \notin {all_rows[i].row.facturado.t, all_rows[i].row.pagado.t,
                           all_rows[i].row.pendiente.t}

\* C5: over the records that are not ANULADO, test_2 .. test_5 report PASS
\* exactly when the decimal totals of facturado, pagado and pendiente are
\* 246404811.64, 246085710.64 and 319100.90 and the residual is 0.10, to the
\* hundredth and with a null amount counted as 0.00.
C5_TotalsExact ==
    (vg_pc = "done" /\ VerifyInputShaped) =>
        /\ vg_out.kind = "results"
        /\ vg_out.tests["test_2"] = "PASS" <=> TotalIs("facturado", 246404811, 64)
        /\ vg_out.tests["test_3"] = "PASS" <=> TotalIs("pagado", 246085710, 64)
        /\ vg_out.tests["test_4"] = "PASS" <=> TotalIs("pendiente", 319100, 90)
        /\ vg_out.tests["test_5"] = "PASS" <=> ResidualIs(10)

\* the four checks pass on a set with null amounts that is not the reference
\* set: a cancelled record more, a record with null amounts more
C5_Witness ==
    /\ vg_pc = "done"
    /\ vg_out.kind = "results"
    /\ \A t \in {"test_2", "test_3", "test_4", "test_5"} : vg_out.tests[t] = "PASS"
    /\ vg_out.tests["test_1"] = "FAIL"
    /\ \E i \in NotCancelled : all_rows[i].row.facturado.t = "none"
    /\ \E i \in 1..Len(all_rows) : i \notin NotCancelled

\* C6: for every fetched set, fields absent or null included, the verifier
\* returns the nine entries test_1 .. test_9, each PASS or FAIL, and raises
\* nothing.
C6_NineChecksAlways ==
    vg_pc = "done" =>
        /\ vg_out.kind = "results"
        /\ DOMAIN vg_out.tests = TestNames
        /\ \A t \in TestNames : vg_out.tests[t] \in {"PASS", "FAIL"}

-----------------------------------------------------------------------------
(* The snapshot cache of dashboard.py: fetch_all_comprobantes and            *)
(* get_cached_df, run by concurrent requests (FastAPI runs the def endpoints *)
(* on a thread pool; a step is one access to a module global or one page     *)
(* request). A table is [n, last, pages, by]: n rows, received in `pages`    *)
(* pages of which the last had `last` rows, fetched by request `by`.         *)

chunk_size == 1000
max_rows == 50000
cache_ttl == 600

\* The row counts the source table takes: none, and one full page and a short one.
RemoteSizes == {0, 1500}

\* time.time() when the service starts, and how the clock advances
StartTime == 1000
TickStep == 600
\* How many times the clock advances.
MaxTicks == 2

Min(a, b) == IF a < b THEN a ELSE b
Max(a, b) == IF a > b THEN a ELSE b

\* line 22: the rows the source answers range(start, start + chunk_size - 1) with
page_rows(rows_at_source, start) == Max(0, Min(chunk_size, rows_at_source - start))

\* the loop without the stop past max_rows
loop_ends_uncapped(len_rows, len_all) ==
    len_rows = 0 \/ len_rows < chunk_size

\* the loop left as soon as a page is not longer than chunk_size
loop_ends_on_full_page(len_rows, len_all) ==
    len_rows = 0 \/ len_rows <= chunk_size \/ len_all > max_rows

\* lines 24-31: the loop is left on an empty page, a short page, or past max_rows
loop_ends(len_rows, len_all) ==
    len_rows = 0 \/ len_rows < chunk_size \/ len_all > max_rows

\* the snapshot taken as stale from 600 seconds on
is_stale_at_ttl(t, last) == t - last >= cache_ttl
\* line 39: the snapshot is absent or stale
is_none(t) == t = NoTable
is_stale(t, last) == t - last > cache_ttl

\* df.empty
is_empty(t) == t.n = 0

Done(status, t) == [status |-> status, df |-> t]

RECURSIVE fetch_from(_, _, _)
\* lines 21-33 run alone from the locals (all, start) on a source of r rows
fetch_from(r, all, start) ==
    LET rows == page_rows(r, start)
        next == [all EXCEPT !.n = @ + rows, !.last = rows, !.pages = @ + 1]
    IN  IF loop_ends(rows, next.n) THEN next
        ELSE fetch_from(r, next, start + chunk_size)

\* fetch_all_comprobantes run by an earlier request (request 0) on r rows
fetch_all_comprobantes(r) ==
    fetch_from(r, [n |-> 0, last |-> 0, pages |-> 0, by |-> 0], 0)

\* The service has just started, or an earlier request has refreshed the
\* cache at StartTime from a source of some size.
CacheInit ==
    /\ \/ _df_cache = NoTable /\ _last_cache_time = 0
       \/ /\ \E r \in RemoteSizes : _df_cache = fetch_all_comprobantes(r)
          /\ _last_cache_time = StartTime
    /\ now = StartTime
    /\ remote \in RemoteSizes
    /\ pc = [p \in Req |-> "idle"]
    /\ current_time = [p \in Req |-> 0]
    /\ fetch_rows = [p \in Req |-> NoTable]
    /\ current_start = [p \in Req |-> 0]
    /\ got = [p \in Req |-> Done(0, NoTable)]
    /\ response = [p \in Req |-> 0]
    /\ CleanOff
    /\ VerifyOff
    /\ EngineOff
    /\ CallOff

\* a fetch that begins only when no other request is refreshing
BeginFetch_single_flight(p) ==
    IF \E q \in Req \ {p} : pc[q] \in {"L22", "L42", "L43"}
    THEN pc' = [pc EXCEPT ![p] = "L48a"] /\ UNCHANGED <<fetch_rows, current_start>>
    ELSE /\ fetch_rows' = [fetch_rows EXCEPT ![p] = [n |-> 0, last |-> 0, pages |-> 0, by |-> p]]
         /\ current_start' = [current_start EXCEPT ![p] = 0]
         /\ pc' = [pc EXCEPT ![p] = "L22"]

\* lines 17-19: the locals of a fetch that begins
BeginFetch(p) ==
    /\ fetch_rows' = [fetch_rows EXCEPT ![p] = [n |-> 0, last |-> 0, pages |-> 0, by |-> p]]
    /\ current_start' = [current_start EXCEPT ![p] = 0]
    /\ pc' = [pc EXCEPT ![p] = "L22"]

\* line 37: current_time = time.time()
L37(p) ==
    /\ pc[p] = "idle"
    /\ current_time' = [current_time EXCEPT ![p] = now]
    /\ pc' = [pc EXCEPT ![p] = "L39a"]
    /\ UNCHANGED <<_df_cache, _last_cache_time, now, remote, fetch_rows, current_start, got>>
    /\ CacheStep

\* line 39, left operand: _df_cache is None
L39a(p) ==
    /\ pc[p] = "L39a"
    /\ IF is_none(_df_cache)
       THEN BeginFetch(p)
       ELSE pc' = [pc EXCEPT ![p] = "L39b"] /\ UNCHANGED <<fetch_rows, current_start>>
    /\ UNCHANGED <<_df_cache, _last_cache_time, now, remote, current_time, got>>
    /\ CacheStep

\* line 39, right operand: (current_time - _last_cache_time) > 600
L39b(p) ==
    /\ pc[p] = "L39b"
    /\ IF is_stale(current_time[p], _last_cache_time)
       THEN BeginFetch(p)
       ELSE pc' = [pc EXCEPT ![p] = "L48a"] /\ UNCHANGED <<fetch_rows, current_start>>
    /\ UNCHANGED <<_df_cache, _last_cache_time, now, remote, current_time, got>>
    /\ CacheStep

\* lines 22-31: one turn of the loop of fetch_all_comprobantes
L22(p) ==
    /\ pc[p] = "L22"
    /\ LET rows == page_rows(remote, current_start[p])
           all == [fetch_rows[p] EXCEPT !.n = @ + rows, !.last = rows, !.pages = @ + 1]
       IN  /\ fetch_rows' = [fetch_rows EXCEPT ![p] = all]
           /\ IF loop_ends(rows, all.n)
              THEN pc' = [pc EXCEPT ![p] = "L42"] /\ UNCHANGED current_start
              ELSE /\ pc' = [pc EXCEPT ![p] = "L22"]
                   /\ current_start' = [current_start EXCEPT ![p] = @ + chunk_size]
    /\ UNCHANGED <<_df_cache, _last_cache_time, now, remote, current_time, got>>
    /\ CacheStep

\* line 22 (or line 16) raises: the source cannot be reached
L22Raises(p) ==
    /\ pc[p] = "L22"
    /\ pc' = [pc EXCEPT ![p] = "L46"]
    /\ fetch_rows' = [fetch_rows EXCEPT ![p] = NoTable]
    /\ current_start' = [current_start EXCEPT ![p] = 0]
    /\ UNCHANGED <<_df_cache, _last_cache_time, now, remote, current_time, got>>
    /\ CacheStep

\* line 42: _df_cache = the table the fetch returned
L42(p) ==
    /\ pc[p] = "L42"
    /\ _df_cache' = fetch_rows[p]
    /\ pc' = [pc EXCEPT ![p] = "L43"]
    /\ fetch_rows' = [fetch_rows EXCEPT ![p] = NoTable]
    /\ current_start' = [current_start EXCEPT ![p] = 0]
    /\ UNCHANGED <<_last_cache_time, now, remote, current_time, got>>
    /\ CacheStep

\* line 43: _last_cache_time = current_time
L43(p) ==
    /\ pc[p] = "L43"
    /\ _last_cache_time' = current_time[p]
    /\ pc' = [pc EXCEPT ![p] = "L48a"]
    /\ UNCHANGED <<_df_cache, now, remote, current_time, fetch_rows, current_start, got>>
    /\ CacheStep

\* the except clause raising 500 whether or not a snapshot is held
L46_always_raises(p) ==
    /\ pc[p] = "L46"
    /\ got' = [got EXCEPT ![p] = Done(500, NoTable)]
    /\ pc' = [pc EXCEPT ![p] = "done"]
    /\ UNCHANGED <<_df_cache, _last_cache_time, now, remote, current_time,
                   fetch_rows, current_start>>
    /\ CacheStep

\* line 46: the except clause raises 500 only with no snapshot held
L46(p) ==
    /\ pc[p] = "L46"
    /\ IF is_none(_df_cache)
       THEN /\ got' = [got EXCEPT ![p] = Done(500, NoTable)]
            /\ pc' = [pc EXCEPT ![p] = "done"]
       ELSE /\ pc' = [pc EXCEPT ![p] = "L48a"]
            /\ UNCHANGED got
    /\ UNCHANGED <<_df_cache, _last_cache_time, now, remote, current_time,
                   fetch_rows, current_start>>
    /\ CacheStep

\* line 48, left operand: _df_cache is None
L48a(p) ==
    /\ pc[p] = "L48a"
    /\ IF is_none(_df_cache)
       THEN /\ got' = [got EXCEPT ![p] = Done(404, NoTable)]
            /\ pc' = [pc EXCEPT ![p] = "done"]
       ELSE /\ pc' = [pc EXCEPT ![p] = "L48b"]
            /\ UNCHANGED got
    /\ UNCHANGED <<_df_cache, _last_cache_time, now, remote, current_time,
                   fetch_rows, current_start>>
    /\ CacheStep

\* line 48, right operand: _df_cache.empty
L48b(p) ==
    /\ pc[p] = "L48b"
    /\ IF is_empty(_df_cache)
       THEN /\ got' = [got EXCEPT ![p] = Done(404, NoTable)]
            /\ pc' = [pc EXCEPT ![p] = "done"]
       ELSE /\ pc' = [pc EXCEPT ![p] = "L51"]
            /\ UNCHANGED got
    /\ UNCHANGED <<_df_cache, _last_cache_time, now, remote, current_time,
                   fetch_rows, current_start>>
    /\ CacheStep

\* line 51: return _df_cache
L51(p) ==
    /\ pc[p] = "L51"
    /\ got' = [got EXCEPT ![p] = Done(200, _df_cache)]
    /\ pc' = [pc EXCEPT ![p] = "done"]
    /\ UNCHANGED <<_df_cache, _last_cache_time, now, remote, current_time,
                   fetch_rows, current_start>>
    /\ CacheStep

\* the clock advances
Tick ==
    /\ now < StartTime + MaxTicks * TickStep
    /\ now' = now + TickStep
    /\ UNCHANGED <<_df_cache, _last_cache_time, remote, pc, current_time,
                   fetch_rows, current_start, got>>
    /\ CacheStep

\* the source table gains or loses rows
RemoteWrite ==
    /\ \E n \in RemoteSizes \ {remote} : remote' = n
    /\ UNCHANGED <<_df_cache, _last_cache_time, now, pc, current_time,
                   fetch_rows, current_start, got>>
    /\ CacheStep



NextCache ==
    \/ \E p \in Req : \/ L37(p) \/ L39a(p) \/ L39b(p) \/ L22(p) \/ L22Raises(p)
                       \/ L42(p) \/ L43(p) \/ L46(p) \/ L48a(p) \/ L48b(p) \/ L51(p)
    \/ Tick
    \/ RemoteWrite

SpecCache == CacheInit /\ [][NextCache]_vars

\* a table whose fetch ran to its end: its last page was empty or short, or it
\* passed max_rows
Complete(t) == t.pages >= 1 /\ (t.last < chunk_size \/ t.n > max_rows)

\* the requests whose fetch is under way
Fetching == {q \in Req : pc[q] = "L22"}

\* C4: at every interleaving of refreshes and requests, the held snapshot and
\* every snapshot a request has obtained is a complete table, the one held
\* before or one a finished fetch returned, never the partial table of a
\* fetch in progress.
C4_SnapshotComplete ==
    /\ ~ is_none(_df_cache) => Complete(_df_cache) /\ _df_cache.by \notin Fetching
    /\ \A p \in Req : got[p].status = 200 =>
          /\ Complete(got[p].df)
          /\ got[p].df.by \notin Fetching
          /\ \A q \in Fetching : got[p].df # fetch_rows[q]

\* a request has been served the table held before while another request's
\* fetch has received one page of several
C4_Witness ==
    \E p, q \in Req :
        /\ got[p].status = 200
        /\ got[p].df.by = 0
        /\ pc[q] = "L22"
        /\ fetch_rows[q].pages = 1
        /\ fetch_rows[q].n = chunk_size


-----------------------------------------------------------------------------
(* calculate_analytics: the tables it works on                              *)

\* Timestamps of the year range the tables use; day 0 is 2020-01-01.
EpochYear == 2020
\* Timestamp.dayofweek of 2020-01-01 (Monday = 0): a Wednesday
EpochDow == 2

IsLeap(y) == (y % 4 = 0 /\ y % 100 # 0) \/ y % 400 = 0
DaysInMonth(y, m) ==
    IF m = 2 THEN (IF IsLeap(y) THEN 29 ELSE 28)
    ELSE IF m \in {4, 6, 9, 11} THEN 30 ELSE 31
DaysInYear(y) == IF IsLeap(y) THEN 366 ELSE 365

\* Timestamp.dayofyear
dayofyear(t) ==
    SumOver(1..(t.m - 1), [m \in 1..(t.m - 1) |-> DaysInMonth(t.y, m)]) + t.d
\* days from 2020-01-01 to the date of t
Ordinal(t) ==
    SumOver(EpochYear..(t.y - 1), [y \in EpochYear..(t.y - 1) |-> DaysInYear(y)])
        + dayofyear(t) - 1
\* Timestamp.dayofweek
dayofweek(t) == (Ordinal(t) + EpochDow) % 7
\* Timestamp.day_name()
day_name(t) ==
    <<"Monday", "Tuesday", "Wednesday", "Thursday", "Friday", "Saturday",
      "Sunday">>[dayofweek(t) + 1]
\* hours from 2020-01-01 00:00 to t
HoursAt(t) == Ordinal(t) * 24 + t.h
\* (ref - t).days: whole days, rounded down
days_between(ref, t) == (HoursAt(ref) - HoursAt(t)) \div 24

\* A fecha_emision cell: a text ("text", y = 0 when it is not a date), a
\* Timestamp ("ts") or NaT ("nat").
DateText(y, m, d, h) == [k |-> "text", y |-> y, m |-> m, d |-> d, h |-> h]
BadText == DateText(0, 0, 0, 0)
NaT == [k |-> "nat", y |-> 0, m |-> 0, d |-> 0, h |-> 0]

\* pd.to_datetime(..., errors='coerce') of one cell
to_datetime(c) ==
    IF c.k = "text"
    THEN (IF c.y = 0 THEN NaT ELSE [c EXCEPT !.k = "ts"])
    ELSE c

\* the cell of a column the table does not have
NoCell == [k |-> "absent", v |-> 0, s |-> <<>>]
NoCol == -1

numeric_cols == {"facturado", "pagado", "pendiente", "descuento"}
derived_cols == {"year", "month", "day_name", "hour"}

\* A forma_pago_raw cell: null, or a text given by the words it contains
\* (a word stands for a substring; <<>> is the empty text).
Forma(words) == [null |-> FALSE, words |-> words]
NullForma == [null |-> TRUE, words |-> <<>>]
NoForma == [null |-> TRUE, words |-> <<Absent>>]

\* a record as the source delivers it
RawRow(fecha, f, p, pe, d, estado, tipo, cliente, forma) ==
    [fecha_emision |-> fecha, facturado |-> f, pagado |-> p, pendiente |-> pe,
     descuento |-> d, estado |-> estado, tipo |-> tipo, cliente |-> cliente,
     forma_pago_raw |-> forma,
     year |-> NoCol, month |-> NoCol, day_name |-> Absent, hour |-> NoCol]

\* a row of a table that lacks some columns
WithColumns(r, cols) ==
    [r EXCEPT !.descuento = IF "descuento" \in cols THEN @ ELSE NoCell,
              !.estado = IF "estado" \in cols THEN @ ELSE Absent,
              !.tipo = IF "tipo" \in cols THEN @ ELSE Absent,
              !.cliente = IF "cliente" \in cols THEN @ ELSE Absent,
              !.forma_pago_raw = IF "forma_pago_raw" \in cols THEN @ ELSE NoForma]

\* df.empty
empty(t) == Len(t.rows) = 0 \/ t.cols = {}

\* lines 33-37: one amount cell of column col
clean_column(t, col, cell) == IF col \in t.cols THEN clean_currency(cell) ELSE Num(0)

\* lines 33-44, assigned into the table that was passed in
preprocess_columns(t) ==
    Table(t.cols \cup numeric_cols \cup derived_cols,
          [i \in 1..Len(t.rows) |->
              LET r == t.rows[i]
                  fe == to_datetime(r.fecha_emision)
                  nat == fe.k = "nat"
              IN [r EXCEPT
                    !.facturado = clean_column(t, "facturado", @),
                    !.pagado = clean_column(t, "pagado", @),
                    !.pendiente = clean_column(t, "pendiente", @),
                    !.descuento = clean_column(t, "descuento", @),
                    !.fecha_emision = fe,
                    !.year = IF nat THEN 0 ELSE fe.y,
                    !.month = IF nat THEN 0 ELSE fe.m,
                    !.day_name = IF nat THEN PyNone ELSE day_name(fe),
                    !.hour = IF nat THEN 0 ELSE fe.h]])

\* line 47 left out: the rows without a date stay
dropna_keeps_all(t) == t

\* line 47: df.dropna(subset=['fecha_emision']), a new table
dropna(t) == Table(t.cols, SelectSeq(t.rows, LAMBDA r : r.fecha_emision.k # "nat"))

\* lines 16-47: the preprocessing step
preprocess(t) == dropna(preprocess_columns(t))


-----------------------------------------------------------------------------
(* The preprocessing step run on a raw table and then on its own output     *)

MaxPPRows == 2

\* the facturado cells of the raw tables
PPCells ==
    {Null, NaN, Num(Scale + 1), Str(<<>>), Str(<<"1", ",", "1">>),
     Str(<<"$", "1", ".">>), Str(<<"n", "a", "n">>), Str(<<"x">>)}
PPDates == {DateText(2025, 1, 2, 10), DateText(2024, 12, 31, 23), BadText}
PPRows ==
    {RawRow(fecha, f, Num(Scale), Str(<<"0">>), Null, "PAGADO", "Boleta", "A",
            Forma(<<"Efectivo">>)) : fecha \in PPDates, f \in PPCells}
PPColumns ==
    {{"fecha_emision", "facturado", "pagado", "pendiente", "descuento", "estado",
      "tipo", "cliente", "forma_pago_raw"},
     {"fecha_emision", "facturado", "pagado", "pendiente", "estado"}}
PPTables ==
    {Table(cols, [i \in 1..Len(rows) |-> WithColumns(rows[i], cols)]) :
        cols \in PPColumns,
        rows \in UNION {[1..n -> PPRows] : n \in 0..MaxPPRows}}

PreprocessInit ==
    /\ df \in PPTables
    /\ df_before = df
    /\ canon = Table({}, <<>>)
    /\ canon2 = Table({}, <<>>)
    /\ result = NoResult
    /\ an_pc = "raw"
    /\ CleanOff
    /\ VerifyOff
    /\ CacheOff
    /\ CallOff

\* preprocess(raw)
PreprocessOnce ==
    /\ an_pc = "raw"
    /\ canon' = preprocess(df)
    /\ an_pc' = "once"
    /\ UNCHANGED <<df, df_before, canon2, result>>
    /\ EngineStep

\* preprocess(preprocess(raw))
PreprocessTwice ==
    /\ an_pc = "once"
    /\ canon2' = preprocess(canon)
    /\ an_pc' = "twice"
    /\ UNCHANGED <<df, df_before, canon, result>>
    /\ EngineStep

NextPreprocess == PreprocessOnce \/ PreprocessTwice
SpecPreprocess == PreprocessInit /\ [][NextPreprocess]_vars

\* the amounts and the date of row i of a table
MoneyAndDate(t, i) ==
    <<t.rows[i].facturado, t.rows[i].pagado, t.rows[i].pendiente,
      t.rows[i].descuento, t.rows[i].fecha_emision>>

\* C9: preprocessing a table the preprocessing step produced changes no
\* monetary value, no date and not the set of records.
C9_PreprocessIdempotent ==
    an_pc = "twice" =>
        /\ Len(canon2.rows) = Len(canon.rows)
        /\ \A i \in 1..Len(canon.rows) : MoneyAndDate(canon2, i) = MoneyAndDate(canon, i)


-----------------------------------------------------------------------------
(* calculate_analytics: the aggregations of lines 49-334                    *)

\* lines 51-52: a table without an estado column gets estado = 'VIGENTE'
with_estado(t) ==
    IF "estado" \in t.cols THEN t
    ELSE Table(t.cols \cup {"estado"},
               [i \in 1..Len(t.rows) |-> [t.rows[i] EXCEPT !.estado = "VIGENTE"]])

Idx(t) == 1..Len(t.rows)

\* what a cell adds to a pandas sum, which skips NaN
Val(cell) == IF cell.k = "num" THEN cell.v ELSE 0

\* 'sum' of a column over the rows M, with the other two amounts reported
\* beside it forced to balance
agg_sum_balanced(t, M, col) ==
    IF col = "pendiente"
    THEN SumOver(M, [i \in M |-> Val(t.rows[i].facturado) - Val(t.rows[i].pagado)])
    ELSE SumOver(M, [i \in M |-> Val(t.rows[i][col])])

\* 'sum' of a column over the rows M
agg_sum(t, M, col) == SumOver(M, [i \in M |-> Val(t.rows[i][col])])

\* Floats that are quotients: n / d in lowest terms, NaN, infinity, or the
\* ZeroDivisionError a division of Python ints raises.
RECURSIVE GCD(_, _)
GCD(a, b) == IF b = 0 THEN a ELSE GCD(b, a % b)
Abs(x) == IF x < 0 THEN -x ELSE x
Frac(n, d) ==
    LET g == GCD(Abs(n), d) IN [k |-> "num", n |-> n \div g, d |-> d \div g]
Zero == Frac(0, 1)
FNaN == [k |-> "nan", n |-> 0, d |-> 1]
FInf == [k |-> "inf", n |-> 0, d |-> 1]
ZeroDivisionError == [k |-> "raise", n |-> 0, d |-> 1]

Quotient(a, b) == IF b > 0 THEN Frac(a, b) ELSE Frac(-a, -b)
\* a / b of numpy numbers
np_div(a, b) ==
    IF b = 0 THEN (IF a = 0 THEN FNaN ELSE FInf) ELSE Quotient(a, b)
\* a / b of Python ints
py_div(a, b) == IF b = 0 THEN ZeroDivisionError ELSE Quotient(a, b)
\* x * 100
Times100(x) == IF x.k = "num" THEN Frac(x.n * 100, x.d) ELSE x

\* line 86 and line 136
ticket_prom(facturado, tx_count) ==
    IF tx_count > 0 THEN np_div(facturado, tx_count) ELSE Zero
\* line 87
desc_rate_percentage(descuento, gross) ==
    IF gross > 0 THEN Times100(np_div(descuento, gross)) ELSE Zero

\* lines 55-60
has_tipo(t) == "tipo" \in t.cols
tipo_key(t, i) == IF has_tipo(t) THEN t.rows[i].tipo ELSE Absent
group_dims_year(t, i) == <<t.rows[i].year, t.rows[i].estado, tipo_key(t, i)>>
group_dims_month(t, i) ==
    <<t.rows[i].year, t.rows[i].month, t.rows[i].estado, tipo_key(t, i)>>
\* groupby leaves out the rows with a null key
Grouped(t) == {i \in Idx(t) : t.rows[i].estado # PyNone /\ tipo_key(t, i) # PyNone}

\* lines 64-91
kpis_by_year(t) ==
    {LET M == {i \in Grouped(t) : group_dims_year(t, i) = key}
         facturado == agg_sum(t, M, "facturado")
         descuento == agg_sum(t, M, "descuento")
         tx_count == Cardinality(M)
     IN [year |-> key[1], estado |-> key[2], tipo |-> key[3],
         tx_count |-> tx_count,
         facturado |-> facturado,
         pagado |-> agg_sum(t, M, "pagado"),
         pendiente |-> agg_sum(t, M, "pendiente"),
         descuento |-> descuento,
         ticket_prom |-> ticket_prom(facturado, tx_count),
         desc_rate_percentage |-> desc_rate_percentage(descuento, facturado + descuento)]
     : key \in {group_dims_year(t, i) : i \in Grouped(t)}}

\* lines 116-140
monthly_seasonality(t) ==
    {LET M == {i \in Grouped(t) : group_dims_month(t, i) = key}
         facturado == agg_sum(t, M, "facturado")
         tx_count == Cardinality(M)
     IN [year |-> key[1], month |-> key[2], estado |-> key[3], tipo |-> key[4],
         facturado |-> facturado,
         pagado |-> agg_sum(t, M, "pagado"),
         pendiente |-> agg_sum(t, M, "pendiente"),
         descuento |-> agg_sum(t, M, "descuento"),
         tx_count |-> tx_count,
         ticket_prom |-> ticket_prom(facturado, tx_count)]
     : key \in {group_dims_month(t, i) : i \in Grouped(t)}}

\* line 94: the rows of df_valid
df_valid(t) == {i \in Idx(t) : t.rows[i].estado # "ANULADO"}
\* line 240 (and lines 95, 100): the rows of df_valid of one year
valid_of_year(t, y) == {i \in df_valid(t) : t.rows[i].year = y}

\* .max() of fecha_emision over the rows M (M not empty)
max_date(t, M) ==
    LET i == CHOOSE j \in M :
                \A l \in M : HoursAt(t.rows[l].fecha_emision) <= HoursAt(t.rows[j].fecha_emision)
    IN t.rows[i].fecha_emision

\* line 104
growth_rate(facturado_2025, facturado_2024) ==
    IF facturado_2024 > 0
    THEN Times100(np_div(facturado_2025 - facturado_2024, facturado_2024))
    ELSE Zero

\* lines 95-113: {} when df_valid has no record of 2025
ytd_comparison(t) ==
    IF valid_of_year(t, 2025) = {} THEN {}
    ELSE LET max_date_2025 == max_date(t, valid_of_year(t, 2025))
             day_of_year_limit == dayofyear(max_date_2025)
             ytd(y) == {i \in valid_of_year(t, y) :
                          dayofyear(t.rows[i].fecha_emision) <= day_of_year_limit}
             facturado_2025 == agg_sum(t, ytd(2025), "facturado")
             facturado_2024 == agg_sum(t, ytd(2024), "facturado")
         IN {[limit_date |-> max_date_2025,
              facturado_2025 |-> facturado_2025,
              facturado_2024 |-> facturado_2024,
              growth_rate_percentage |-> growth_rate(facturado_2025, facturado_2024),
              tx_2025 |-> Cardinality(ytd(2025)),
              tx_2024 |-> Cardinality(ytd(2024))]}


\* line 143 and lines 144-146
dow_idx(t, i) == dayofweek(t.rows[i].fecha_emision)
dow_map ==
    <<"Lunes", "Martes", "Miercoles", "Jueves", "Viernes", "Sabado", "Domingo">>
\* every row counted as a day of its own
date_key_per_record(t, i) == i
\* x.dt.date of a row
date_key(t, i) ==
    <<t.rows[i].fecha_emision.y, t.rows[i].fecha_emision.m, t.rows[i].fecha_emision.d>>

\* line 162
avg_daily_sales(total_facturado, count_active_days) ==
    IF count_active_days > 0 THEN np_div(total_facturado, count_active_days) ELSE Zero

\* lines 150-163
dow_analysis(t) ==
    {LET M == {i \in df_valid(t) : dow_idx(t, i) = dow}
         total_facturado == agg_sum(t, M, "facturado")
         count_active_days == Cardinality({date_key(t, i) : i \in M})
     IN [day |-> dow_map[dow + 1],
         facturado |-> total_facturado,
         tx_count |-> Cardinality(M),
         avg_daily_sales |-> avg_daily_sales(total_facturado, count_active_days)]
     : dow \in {dow_idx(t, i) : i \in df_valid(t)}}

\* lines 166-178
demanda_heatmap(t) ==
    {LET M == {i \in df_valid(t) : <<dow_idx(t, i), t.rows[i].hour>> = key}
     IN [day |-> dow_map[key[1] + 1], hour |-> key[2],
         facturado |-> agg_sum(t, M, "facturado"),
         tx_count |-> Cardinality(M)]
     : key \in {<<dow_idx(t, i), t.rows[i].hour>> : i \in df_valid(t)}}

\* lines 182-193
daily_trends(t) ==
    {LET M == {i \in df_valid(t) : date_key(t, i) = key}
     IN [date |-> key,
         facturado |-> agg_sum(t, M, "facturado"),
         tx_count |-> Cardinality(M)]
     : key \in {date_key(t, i) : i \in df_valid(t)}}

\* str.lower() of a word
lower(w) ==
    CASE w = "Tarjeta" -> "tarjeta"
      [] w = "TBK" -> "tbk"
      [] w = "TRANSBANK" -> "transbank"
      [] w = "EFECTIVO" -> "efectivo"
      [] w = "Transferencia" -> "transferencia"
      [] w = "Efectivo" -> "efectivo"
      [] w = "Sin Boleta" -> "sin boleta"
      [] OTHER -> w
\* w in str(pago).lower(); str(None) is 'None'
contains(pago, w) ==
    ~ pago.null /\ \E j \in 1..Len(pago.words) : lower(pago.words[j]) = w

\* lines 199-200 in the other order
categorize_payment_reordered(pago) ==
    IF contains(pago, "transferencia") THEN "Transferencia"
    ELSE IF contains(pago, "tarjeta") \/ contains(pago, "transbank") \/ contains(pago, "tbk")
    THEN "Tarjeta/POS"
    ELSE IF contains(pago, "efectivo") THEN "Efectivo"
    ELSE IF contains(pago, "sin boleta") THEN "Sin Boleta"
    ELSE "Otros"

\* lines 197-203
categorize_payment(pago) ==
    IF contains(pago, "tarjeta") \/ contains(pago, "transbank") \/ contains(pago, "tbk")
    THEN "Tarjeta/POS"
    ELSE IF contains(pago, "transferencia") THEN "Transferencia"
    ELSE IF contains(pago, "efectivo") THEN "Efectivo"
    ELSE IF contains(pago, "sin boleta") THEN "Sin Boleta"
    ELSE "Otros"

\* lines 205-208
payment_type(t, i) ==
    IF "forma_pago_raw" \in t.cols
    THEN categorize_payment(t.rows[i].forma_pago_raw)
    ELSE "Otros"

\* lines 212-225
payment_mix_data(t) ==
    {LET M == {i \in df_valid(t) :
                 <<t.rows[i].year, t.rows[i].month, payment_type(t, i)>> = key}
     IN [year |-> key[1], month |-> key[2], type |-> key[3],
         amount |-> agg_sum(t, M, "facturado"),
         count |-> Cardinality(M)]
     : key \in {<<t.rows[i].year, t.rows[i].month, payment_type(t, i)>> :
                    i \in df_valid(t)}}

\* lines 228-237: one entry per year whose total is not 0, holding the share
\* of each payment type
payment_mix(t) ==
    {[year |-> y,
      mix |-> {<<ty, Times100(np_div(
                        agg_sum(t, {i \in valid_of_year(t, y) : payment_type(t, i) = ty},
                                "facturado"),
                        agg_sum(t, valid_of_year(t, y), "facturado")))>>
               : ty \in {payment_type(t, i) : i \in valid_of_year(t, y)}}]
     : y \in {yy \in {t.rows[i].year : i \in df_valid(t)} :
                 agg_sum(t, valid_of_year(t, yy), "facturado") # 0}}


\* The client names of the tables, in the order groupby sorts them.
ClientNames == <<"", "A", "B", "C">>
Rank(cliente) == CHOOSE j \in 1..Len(ClientNames) : ClientNames[j] = cliente

\* sort_values(col, ascending=False).head(n) of the per-client rows S: the
\* first n by value, equal values in the order groupby gave them
head_sorted(S, col, n) ==
    {x \in S :
        Cardinality({y \in S : \/ y[col] > x[col]
                               \/ y[col] = x[col] /\ Rank(y.cliente) < Rank(x.cliente)}) < n}

\* groupby('cliente') over the rows M: the clients, nulls left out
clients_of(t, M) == {t.rows[i].cliente : i \in {j \in M : t.rows[j].cliente # PyNone}}

\* df[df['pendiente'] > 0]
pending_of(t, M) == {i \in M : Val(t.rows[i].pendiente) > 0}

\* lines 240-246
top_debtors_2025(t) ==
    LET df_2025 == valid_of_year(t, 2025)
        df_2025_pending == pending_of(t, df_2025)
    IN IF df_2025 # {} /\ "cliente" \in t.cols /\ df_2025_pending # {}
       THEN head_sorted(
                {[cliente |-> c,
                  pendiente |-> agg_sum(t, {i \in df_2025_pending : t.rows[i].cliente = c},
                                        "pendiente")]
                 : c \in clients_of(t, df_2025_pending)},
                "pendiente", 5)
       ELSE {}

\* lines 249-254
no_customer_insights ==
    [total_clients_2025 |-> 0,
     retention_rate_percentage |-> Zero,
     pareto_top_20_share_percentage |-> Zero,
     top_20_clients |-> {}]

\* line 263 without its test
has_clients_unguarded(total_clients) == TRUE

\* line 263
has_clients(total_clients) == total_clients > 0

\* line 270
pareto_share(top_20_rev, total_rev) ==
    IF total_rev > 0 THEN Times100(np_div(top_20_rev, total_rev)) ELSE Zero

\* lines 256-283
customer_insights(t) ==
    LET df_2025 == valid_of_year(t, 2025)
        customer_stats ==
            {[cliente |-> c,
              facturado |-> agg_sum(t, {i \in df_2025 : t.rows[i].cliente = c}, "facturado"),
              tx_count |-> Cardinality({i \in df_2025 : t.rows[i].cliente = c})]
             : c \in clients_of(t, df_2025)}
        total_clients == Cardinality(customer_stats)
        returning_clients == Cardinality({x \in customer_stats : x.tx_count > 1})
        top_20 == head_sorted(customer_stats, "facturado", 20)
        top_20_rev == SumOver(top_20, [x \in top_20 |-> x.facturado])
        total_rev == agg_sum(t, df_2025, "facturado")
    IN IF df_2025 # {} /\ "cliente" \in t.cols /\ has_clients(total_clients)
       THEN [total_clients_2025 |-> total_clients,
             retention_rate_percentage |-> Times100(py_div(returning_clients, total_clients)),
             pareto_top_20_share_percentage |-> pareto_share(top_20_rev, total_rev),
             top_20_clients |-> top_20]
       ELSE no_customer_insights

\* lines 294-297, with the third range closed one day early
range_of_open(d) ==
    IF d <= 7 THEN "0-7 dias"
    ELSE IF d > 7 /\ d <= 30 THEN "8-30 dias"
    ELSE IF d > 30 /\ d < 60 THEN "31-60 dias"
    ELSE IF d > 60 THEN "60+ dias"
    ELSE "none"

\* lines 294-297: the range a record of days_since = d is summed into
range_of(d) ==
    IF d <= 7 THEN "0-7 dias"
    ELSE IF d > 7 /\ d <= 30 THEN "8-30 dias"
    ELSE IF d > 30 /\ d <= 60 THEN "31-60 dias"
    ELSE IF d > 60 THEN "60+ dias"
    ELSE "none"

aging_ranges == {"0-7 dias", "8-30 dias", "31-60 dias", "60+ dias"}

\* line 290 taking the latest of the non-cancelled records only
ref_date_valid(t) == max_date(t, df_valid(t))

\* line 290: df['fecha_emision'].max(), over the whole local table
ref_date(t) == max_date(t, Idx(t))

\* lines 286-299
aging_analysis_2025(t) ==
    LET df_2025_pending == pending_of(t, valid_of_year(t, 2025))
    IN IF df_2025_pending = {} THEN {}
       ELSE LET days_since(i) == days_between(ref_date(t), t.rows[i].fecha_emision)
            IN {[range |-> k,
                 amount |-> agg_sum(t, {i \in df_2025_pending : range_of(days_since(i)) = k},
                                    "pendiente")]
                : k \in aging_ranges}

\* lines 315-318
percentage(count, total_records) ==
    IF total_records > 0 THEN Times100(py_div(count, total_records)) ELSE Zero

\* lines 302-319
data_quality(t) ==
    LET total_records == Len(t.rows)
        missing_payment ==
            IF "forma_pago_raw" \in t.cols
            THEN Cardinality({i \in Idx(t) : \/ t.rows[i].forma_pago_raw.null
                                             \/ t.rows[i].forma_pago_raw.words = <<>>})
            ELSE 0
        missing_client ==
            IF "cliente" \in t.cols
            THEN Cardinality({i \in Idx(t) : t.rows[i].cliente \in {PyNone, ""}})
            ELSE 0
        anuladas_count == Cardinality({i \in Idx(t) : t.rows[i].estado = "ANULADO"})
        with_discounts == Cardinality({i \in Idx(t) : Val(t.rows[i].descuento) > 0})
    IN [total_records |-> total_records,
        missing_payment_percentage |-> percentage(missing_payment, total_records),
        missing_client_percentage |-> percentage(missing_client, total_records),
        anuladas_percentage |-> percentage(anuladas_count, total_records),
        with_discounts_percentage |-> percentage(with_discounts, total_records)]


\* lines 321-334: the keys of the result
ResultKeys ==
    {"kpis_by_year", "ytd_comparison", "monthly_seasonality", "dow_analysis",
     "daily_trends", "demanda_heatmap", "payment_mix", "payment_mix_data",
     "top_debtors_2025", "customer_insights", "aging_analysis_2025", "data_quality"}

\* lines 321-334, computed from the local table of line 47
build_result(t) ==
    [kpis_by_year |-> kpis_by_year(t),
     ytd_comparison |-> ytd_comparison(t),
     monthly_seasonality |-> monthly_seasonality(t),
     dow_analysis |-> dow_analysis(t),
     daily_trends |-> daily_trends(t),
     demanda_heatmap |-> demanda_heatmap(t),
     payment_mix |-> payment_mix(t),
     payment_mix_data |-> payment_mix_data(t),
     top_debtors_2025 |-> top_debtors_2025(t),
     customer_insights |-> customer_insights(t),
     aging_analysis_2025 |-> aging_analysis_2025(t),
     data_quality |-> data_quality(t)]

\* lines 342-345: a NaN or infinite float becomes 0.0
sanitize_float(x) == IF x.k \in {"nan", "inf"} THEN Zero ELSE x

\* lines 337-346 over the whole result (the sums are finite floats and the
\* counts are ints, which sanitize returns as they are)
sanitize(out) ==
    [out EXCEPT
        !.kpis_by_year =
            {[x EXCEPT !.ticket_prom = sanitize_float(@),
                       !.desc_rate_percentage = sanitize_float(@)] : x \in @},
        !.ytd_comparison =
            {[x EXCEPT !.growth_rate_percentage = sanitize_float(@)] : x \in @},
        !.monthly_seasonality =
            {[x EXCEPT !.ticket_prom = sanitize_float(@)] : x \in @},
        !.dow_analysis =
            {[x EXCEPT !.avg_daily_sales = sanitize_float(@)] : x \in @},
        !.payment_mix =
            {[x EXCEPT !.mix = {<<e[1], sanitize_float(e[2])>> : e \in @}] : x \in @},
        !.customer_insights =
            [@ EXCEPT !.retention_rate_percentage = sanitize_float(@),
                      !.pareto_top_20_share_percentage = sanitize_float(@)],
        !.data_quality =
            [@ EXCEPT !.missing_payment_percentage = sanitize_float(@),
                      !.missing_client_percentage = sanitize_float(@),
                      !.anuladas_percentage = sanitize_float(@),
                      !.with_discounts_percentage = sanitize_float(@)]]

\* a division of Python ints raised ZeroDivisionError while the result was built
Raised(out) ==
    "raise" \in {out.customer_insights.retention_rate_percentage.k,
                 out.data_quality.missing_payment_percentage.k,
                 out.data_quality.missing_client_percentage.k,
                 out.data_quality.anuladas_percentage.k,
                 out.data_quality.with_discounts_percentage.k}

Returned(keys, out) == [kind |-> "ok", keys |-> keys, out |-> out]
Raises == [kind |-> "raise", keys |-> {}, out |-> <<>>]

\* calculate_analytics(df): the table passed in as the call leaves it, the
\* local table of line 47 and what the call ends with
calculate_analytics(t) ==
    IF empty(t)
    THEN [df |-> t, local |-> t, result |-> Returned({}, <<>>)]
    ELSE LET local == with_estado(preprocess(t))
             out == build_result(local)
         IN [df |-> preprocess_columns(t),
             local |-> local,
             result |-> IF Raised(out) THEN Raises
                        ELSE Returned(ResultKeys, sanitize(out))]

-----------------------------------------------------------------------------
(* The engine run on a table of the source                                  *)

MaxRows == 2

\* The dates every kind of record comes with: 2025-01-02 10h and 60 days
\* later, the last day of 2024, a text that is no date.
EngineDates ==
    {DateText(2025, 1, 2, 10), DateText(2025, 3, 3, 10), DateText(2024, 12, 31, 10),
     BadText}
\* The dates only paid and owed records come with: 1 day before 2025-01-02
\* 10h, 7 days and 6 hours after it and 30 days after it.
EdgeDates ==
    {DateText(2025, 1, 1, 10), DateText(2025, 1, 9, 16), DateText(2025, 2, 1, 10)}

\* a whole amount, in units of 1 / Scale
Amount(n) == Num(n * Scale)

\* The records of the tables but for their date: paid with a discount; owed;
\* cancelled with an amount owed; paid with a residual of 0.1 and amounts given
\* as texts; all amounts zero, no client, no payment text; no estado and no tipo,
\* nothing invoiced and 1 owed.
EngineRows(fecha) ==
    {RawRow(fecha, Amount(3), Amount(3), Amount(0), Amount(1), "PAGADO", "Boleta",
            "A", Forma(<<"Efectivo">>)),
     RawRow(fecha, Amount(2), Amount(0), Amount(2), Amount(0), "PENDIENTE", "Factura",
            "A", Forma(<<"Transferencia", "Tarjeta">>)),
     RawRow(fecha, Amount(5), Amount(0), Amount(5), Amount(0), "ANULADO", "Boleta",
            "B", Forma(<<"TBK">>)),
     RawRow(fecha, Str(<<"1", ",", "1">>), Amount(1), Null, Str(<<"x">>), "PAGADO",
            "Boleta", "B", Forma(<<"cheque">>)),
     RawRow(fecha, Str(<<>>), Amount(0), Amount(0), Amount(0), "PAGADO", "Boleta",
            PyNone, NullForma),
     RawRow(fecha, Amount(0), Amount(0), Amount(1), Amount(0), PyNone, PyNone,
            "C", Forma(<<>>))}

EngineColumns ==
    {{"fecha_emision", "facturado", "pagado", "pendiente", "descuento", "estado",
      "tipo", "cliente", "forma_pago_raw"},
     {"fecha_emision", "facturado", "pagado", "pendiente"}}

\* the paid and the owed record
EdgeRows(fecha) ==
    {r \in EngineRows(fecha) : r.estado \in {"PAGADO", "PENDIENTE"} /\ r.forma_pago_raw.words
                                   \in {<<"Efectivo">>, <<"Transferencia", "Tarjeta">>}}

AllEngineRows ==
    UNION {EngineRows(fecha) : fecha \in EngineDates}
        \cup UNION {EdgeRows(fecha) : fecha \in EdgeDates}

EngineTables ==
    {Table(cols, [i \in 1..Len(rows) |-> WithColumns(rows[i], cols)]) :
        cols \in EngineColumns,
        rows \in UNION {[1..n -> AllEngineRows] : n \in 0..MaxRows}}

EngineInit ==
    /\ df \in EngineTables
    /\ df_before = df
    /\ canon = Table({}, <<>>)
    /\ canon2 = Table({}, <<>>)
    /\ result = NoResult
    /\ an_pc = "call"
    /\ CleanOff
    /\ VerifyOff
    /\ CacheOff
    /\ CallOff

\* result = calculate_analytics(df)
Call ==
    /\ an_pc = "call"
    /\ LET r == calculate_analytics(df)
       IN /\ df' = r.df
          /\ canon' = r.local
          /\ result' = r.result
    /\ an_pc' = "done"
    /\ UNCHANGED <<df_before, canon2>>
    /\ EngineStep

NextEngine == Call
SpecEngine == EngineInit /\ [][NextEngine]_vars


-----------------------------------------------------------------------------
(* Properties of calculate_analytics                                        *)

\* the call returned the full result
Answered == an_pc = "done" /\ result.kind = "ok" /\ result.keys = ResultKeys

\* the cleaned amount of a canonical record
Money(i, col) == canon.rows[i][col].v
\* the sum of an amount over the canonical records S, added up record by record
PlainSum(S, col) == SumOver(S, [i \in S |-> Money(i, col)])
\* facturado - (pagado + pendiente) of one record
Residual(i) == Money(i, "facturado") - (Money(i, "pagado") + Money(i, "pendiente"))

\* the canonical records a reported group stands for
MembersOf(item, with_month) ==
    {i \in 1..Len(canon.rows) :
        /\ canon.rows[i].year = item.year
        /\ with_month => canon.rows[i].month = item.month
        /\ canon.rows[i].estado = item.estado
        /\ "tipo" \in canon.cols => canon.rows[i].tipo = item.tipo}

SumsArePlain(item, S) ==
    /\ S # {}
    /\ item.tx_count = Cardinality(S)
    /\ item.facturado = PlainSum(S, "facturado")
    /\ item.pagado = PlainSum(S, "pagado")
    /\ item.pendiente = PlainSum(S, "pendiente")
    /\ item.facturado - (item.pagado + item.pendiente)
           = SumOver(S, [i \in S |-> Residual(i)])

\* C1: in every group of kpis_by_year and of monthly_seasonality the reported
\* facturado, pagado and pendiente are each the plain sum of that field over
\* the group's records, so the reported residual is the sum of the records'
\* residuals.
C1_PlainSums ==
    Answered =>
        /\ \A item \in result.out.kpis_by_year : SumsArePlain(item, MembersOf(item, FALSE))
        /\ \A item \in result.out.monthly_seasonality :
               SumsArePlain(item, MembersOf(item, TRUE))

\* a group of two records is reported with a residual that is not zero
C1_Witness ==
    /\ Answered
    /\ \E item \in result.out.monthly_seasonality :
          /\ item.tx_count = 2
          /\ item.facturado - (item.pagado + item.pendiente) # 0
    /\ \E item \in result.out.kpis_by_year :
          /\ item.tx_count = 2
          /\ item.facturado - (item.pagado + item.pendiente) # 0

\* the non-cancelled canonical records with pendiente > 0
Outstanding ==
    {i \in 1..Len(canon.rows) :
        canon.rows[i].estado # "ANULADO" /\ Money(i, "pendiente") > 0}
Outstanding2025 == {i \in Outstanding : canon.rows[i].year = 2025}
\* the sum of the reported aging amounts
AgingTotal ==
    SumOver(result.out.aging_analysis_2025,
            [x \in result.out.aging_analysis_2025 |-> x.amount])

C3_CallerTableUnchanged == an_pc = "done" => df = df_before

\* C7: with no canonical record the call does not raise and returns every
\* empty shape: each list present and empty, data_quality with total_records
\* = 0 and all percentages 0, customer_insights with zero counts and an
\* empty top-20 list.
C7_EmptyShapes ==
    an_pc = "done" /\ Len(canon.rows) = 0 =>
        /\ result.kind = "ok"
        /\ result.keys = ResultKeys
        /\ \A key \in {"kpis_by_year", "monthly_seasonality", "dow_analysis",
                       "daily_trends", "demanda_heatmap", "payment_mix",
                       "payment_mix_data", "top_debtors_2025", "aging_analysis_2025"} :
              result.out[key] = {}
        /\ result.out.data_quality.total_records = 0
        /\ result.out.data_quality.missing_payment_percentage = Zero
        /\ result.out.data_quality.missing_client_percentage = Zero
        /\ result.out.data_quality.anuladas_percentage = Zero
        /\ result.out.data_quality.with_discounts_percentage = Zero
        /\ result.out.customer_insights.total_clients_2025 = 0
        /\ result.out.customer_insights.retention_rate_percentage = Zero
        /\ result.out.customer_insights.pareto_top_20_share_percentage = Zero
        /\ result.out.customer_insights.top_20_clients = {}

\* the non-cancelled canonical records of 2025, their clients and their revenue
Valid2025 ==
    {i \in 1..Len(canon.rows) :
        canon.rows[i].estado # "ANULADO" /\ canon.rows[i].year = 2025}
Clients2025 ==
    IF "cliente" \in canon.cols
    THEN {canon.rows[i].cliente : i \in Valid2025} \ {PyNone}
    ELSE {}
IsNumber(x) == x.k = "num"

\* C8: a group with no transaction or no revenue reports an average ticket of
\* 0, a group whose facturado + descuento is 0 a discount percentage of 0, a
\* year with no client a retention rate and a Pareto share of 0 and a year with
\* no client revenue a Pareto share of 0; none is NaN or infinite and the
\* call does not raise.
C8_ZeroDenominators ==
    an_pc = "done" =>
        /\ result.kind = "ok"
        /\ result.keys # {} =>
            /\ \A item \in result.out.kpis_by_year \cup result.out.monthly_seasonality :
                  /\ IsNumber(item.ticket_prom)
                  /\ item.tx_count = 0 \/ item.facturado = 0 => item.ticket_prom = Zero
            /\ \A item \in result.out.kpis_by_year :
                  /\ IsNumber(item.desc_rate_percentage)
                  /\ item.facturado + item.descuento = 0 => item.desc_rate_percentage = Zero
            /\ IsNumber(result.out.customer_insights.retention_rate_percentage)
            /\ IsNumber(result.out.customer_insights.pareto_top_20_share_percentage)
            /\ Clients2025 = {} =>
                  /\ result.out.customer_insights.retention_rate_percentage = Zero
                  /\ result.out.customer_insights.pareto_top_20_share_percentage = Zero
            /\ PlainSum(Valid2025, "facturado") = 0 =>
                  result.out.customer_insights.pareto_top_20_share_percentage = Zero

\* records of 2025 without any client, one of them a group of no revenue, and
\* in another table clients whose revenue is 0
C8_Witness ==
    /\ Answered
    /\ "cliente" \in canon.cols
    /\ Valid2025 # {}
    /\ Clients2025 = {}
    /\ \E item \in result.out.kpis_by_year :
          item.facturado + item.descuento = 0 /\ item.tx_count = 2


-----------------------------------------------------------------------------
(* Records with an unparsable date                                          *)

\* the records of the table passed in whose fecha_emision is a date
Parsable ==
    {i \in 1..Len(df_before.rows) : df_before.rows[i].fecha_emision # BadText}
\* those of them that are not cancelled
ParsableValid ==
    {i \in Parsable : "estado" \in df_before.cols => df_before.rows[i].estado # "ANULADO"}
\* the i-th record of the table passed in is the j-th canonical record
SameRecord(i, j) ==
    /\ canon.rows[j].fecha_emision = [df_before.rows[i].fecha_emision EXCEPT !.k = "ts"]
    /\ canon.rows[j].facturado = clean_currency(df_before.rows[i].facturado)
    /\ canon.rows[j].pagado = clean_currency(df_before.rows[i].pagado)
    /\ canon.rows[j].cliente = df_before.rows[i].cliente
\* how many of the records 1..i of the table passed in have a date
ParsableUpTo(i) == Cardinality({l \in Parsable : l <= i})

\* C11: a record whose fecha_emision cannot be parsed is in no canonical
\* table, aggregate or count (data_quality.total_records included), every
\* record with a date is kept, in order, and the call does not raise.
C11_UnparsableExcluded ==
    an_pc = "done" =>
        /\ result.kind = "ok"
        /\ Len(canon.rows) = Cardinality(Parsable)
        /\ \A i \in Parsable : SameRecord(i, ParsableUpTo(i))
        /\ result.keys # {} =>
            /\ result.out.data_quality.total_records = Cardinality(Parsable)
            /\ SumOver(result.out.daily_trends,
                       [x \in result.out.daily_trends |-> x.tx_count])
                   = Cardinality(ParsableValid)
            /\ SumOver(result.out.daily_trends,
                       [x \in result.out.daily_trends |-> x.facturado])
                   = SumOver(ParsableValid,
                             [i \in ParsableValid |->
                                 clean_currency(df_before.rows[i].facturado).v])
            /\ \A x \in result.out.kpis_by_year \cup result.out.monthly_seasonality :
                  x.year \in {df_before.rows[i].fecha_emision.y : i \in Parsable}
            /\ \A x \in result.out.payment_mix_data :
                  x.year \in {df_before.rows[i].fecha_emision.y : i \in Parsable}

\* a table of one record without a date followed by one with a date
C11_Witness ==
    /\ Answered
    /\ Len(df_before.rows) = 2
    /\ Parsable = {2}
    /\ result.out.data_quality.total_records = 1
    /\ Len(canon.rows) = 1


-----------------------------------------------------------------------------
(* The aging ranges                                                         *)

\* hours from 2020-01-01 00:00 to the latest emission timestamp of the
\* canonical table, cancelled records included
LatestHour ==
    LET H == {HoursAt(canon.rows[i].fecha_emision) : i \in 1..Len(canon.rows)}
    IN CHOOSE h \in H : \A g \in H : g <= h
\* the whole days from record i to the latest emission timestamp
WholeDays(i) == (LatestHour - HoursAt(canon.rows[i].fecha_emision)) \div 24
\* the range the claim gives d days
StatedRange(d) ==
    CASE d <= 7 -> "0-7 dias"
      [] 7 < d /\ d <= 30 -> "8-30 dias"
      [] 30 < d /\ d <= 60 -> "31-60 dias"
      [] d > 60 -> "60+ dias"

\* C12: every outstanding record of the aging analysis adds its pendiente to
\* exactly one range, the one of the whole days d from its emission to the
\* latest emission timestamp of the whole canonical table (cancelled records
\* included): d <= 7, 7 < d <= 30, 30 < d <= 60, d > 60; d is never negative.
C12_AgingRanges ==
    Answered /\ Outstanding2025 # {} =>
        /\ \A i \in Outstanding2025 : WholeDays(i) >= 0
        /\ \A k \in aging_ranges :
              Cardinality({x \in result.out.aging_analysis_2025 : x.range = k}) = 1
        /\ \A x \in result.out.aging_analysis_2025 :
              x.amount = PlainSum({i \in Outstanding2025 : StatedRange(WholeDays(i)) = x.range},
                                  "pendiente")

\* the latest record is a cancelled one, exactly 60 days after the one amount
\* owed, which is reported in the third range
C12_Witness ==
    /\ Answered
    /\ Cardinality(Outstanding2025) = 1
    /\ \E j \in 1..Len(canon.rows) :
          /\ canon.rows[j].estado = "ANULADO"
          /\ HoursAt(canon.rows[j].fecha_emision) = LatestHour
    /\ \E i \in Outstanding2025 : WholeDays(i) = 60
    /\ \E x \in result.out.aging_analysis_2025 : x.range = "31-60 dias" /\ x.amount > 0


-----------------------------------------------------------------------------
(* sanitize (lines 337-346) on nested dicts and lists                       *)

\* A Python value: a float (finite, NaN, inf or -inf), an int, a str, None,
\* a list of values or a dict of values under its keys in insertion order.
Leaf(t, k, v) == [t |-> t, k |-> k, v |-> v, keys |-> <<>>, items |-> <<>>]
PyFloat(k, v) == Leaf("float", k, v)
PyList(items) == [t |-> "list", k |-> "", v |-> 0, keys |-> <<>>, items |-> items]
PyDict(keys, items) == [t |-> "dict", k |-> "", v |-> 0, keys |-> keys, items |-> items]

Leaves ==
    {PyFloat("num", 15), PyFloat("nan", 0), PyFloat("inf", 0), PyFloat("-inf", 0),
     Leaf("int", "num", 7), Leaf("str", "nan", 0), Leaf("NoneType", "", 0)}

\* the test of line 343 missing the negative infinity
non_finite_positive(obj) == obj.k \in {"nan", "inf"}

\* line 343: np.isnan(obj) or np.isinf(obj), of a float
non_finite(obj) == obj.k \in {"nan", "inf", "-inf"}

\* lines 337-346
RECURSIVE sanitize_obj(_)
sanitize_obj(obj) ==
    IF obj.t \in {"dict", "list"}
    THEN [obj EXCEPT !.items = [i \in 1..Len(obj.items) |-> sanitize_obj(obj.items[i])]]
    ELSE IF obj.t = "float"
    THEN (IF non_finite(obj) THEN PyFloat("num", 0) ELSE obj)
    ELSE obj

MaxDepth == 3

RECURSIVE Depth(_)
Depth(obj) ==
    IF obj.t \in {"dict", "list"}
    THEN 1 + (IF obj.items = <<>> THEN 0
              ELSE LET D == {Depth(obj.items[i]) : i \in 1..Len(obj.items)}
                   IN CHOOSE d \in D : \A e \in D : e <= d)
    ELSE 0

SanitizeInit ==
    /\ call_arg \in Leaves \cup {PyList(<<>>), PyDict(<<>>, <<>>)}
    /\ call_ret = <<>>
    /\ call_pc = "build"
    /\ CleanOff
    /\ VerifyOff
    /\ CacheOff
    /\ EngineOff

\* the value becomes an item of a new list, alone or beside a leaf
InList ==
    /\ call_pc = "build"
    /\ Depth(call_arg) < MaxDepth
    /\ \/ call_arg' = PyList(<<call_arg>>)
       \/ \E x \in Leaves : call_arg' \in {PyList(<<x, call_arg>>), PyList(<<call_arg, x>>)}
    /\ UNCHANGED <<call_ret, call_pc>>
    /\ CallStep

\* the value becomes a value of a new dict, alone or after a leaf
InDict ==
    /\ call_pc = "build"
    /\ Depth(call_arg) < MaxDepth
    /\ \/ call_arg' = PyDict(<<"a">>, <<call_arg>>)
       \/ \E x \in Leaves : call_arg' = PyDict(<<"b", "a">>, <<x, call_arg>>)
    /\ UNCHANGED <<call_ret, call_pc>>
    /\ CallStep

\* sanitize(obj)
Sanitize ==
    /\ call_pc = "build"
    /\ call_ret' = sanitize_obj(call_arg)
    /\ call_pc' = "done"
    /\ UNCHANGED call_arg
    /\ CallStep

NextSanitize == InList \/ InDict \/ Sanitize
SpecSanitize == SanitizeInit /\ [][NextSanitize]_vars

\* b is a with every NaN or infinite float, at any depth, replaced by 0 and
\* everything else (keys, lengths, order, other values) as it was
RECURSIVE Sanitized(_, _)
Sanitized(a, b) ==
    IF a.t \in {"dict", "list"}
    THEN /\ b.t = a.t
         /\ b.keys = a.keys
         /\ Len(b.items) = Len(a.items)
         /\ \A i \in 1..Len(a.items) : Sanitized(a.items[i], b.items[i])
    ELSE IF a.t = "float" /\ a.k # "num"
    THEN b = PyFloat("num", 0)
    ELSE b = a

\* C13: sanitize returns a structure of the same shape (same dict keys, same
\* list lengths and order) in which every float that is NaN or +/- infinity,
\* at any depth of dicts and lists, is 0 and every other value is unchanged.
C13_SanitizeShape == call_pc = "done" => Sanitized(call_arg, call_ret)

\* a result-like value: a dict holding, after another value, a list of a dict
\* whose value is -inf
C13_Witness ==
    /\ call_pc = "done"
    /\ call_arg.t = "dict"
    /\ Len(call_arg.items) = 2
    /\ call_arg.items[2].t = "list"
    /\ Len(call_arg.items[2].items) = 1
    /\ call_arg.items[2].items[1].t = "dict"
    /\ Len(call_arg.items[2].items[1].items) = 1
    /\ call_arg.items[2].items[1].items[1] = PyFloat("-inf", 0)
    /\ call_ret.items[2].items[1].items[1] = PyFloat("num", 0)


-----------------------------------------------------------------------------
(* payment_type (lines 197-208) of one record                               *)

MaxWords == 2

\* The pieces of the payment texts; the pieces of a text follow each other
\* with a separator that is part of no keyword.
PayWords ==
    {"Tarjeta", "TRANSBANK", "tbk", "Transferencia", "EFECTIVO", "efectivo",
     "Sin Boleta", "sin", "boleta", "cheque"}
PayTexts == UNION {[1..n -> PayWords] : n \in 0..MaxWords}

\* a table of one record with that payment text, or with a null, or without
\* the column
PayTable(cols, forma) ==
    Table(cols,
          <<WithColumns(RawRow(DateText(2025, 1, 2, 10), Amount(3), Amount(3), Amount(0),
                               Amount(0), "PAGADO", "Boleta", "A", forma), cols)>>)
PayTables ==
    {PayTable({"fecha_emision", "facturado", "forma_pago_raw"}, forma) :
        forma \in {Forma(w) : w \in PayTexts} \cup {NullForma}}
        \cup {PayTable({"fecha_emision", "facturado"}, NullForma)}

PaymentInit ==
    /\ call_arg \in PayTables
    /\ call_ret = <<>>
    /\ call_pc = "call"
    /\ CleanOff
    /\ VerifyOff
    /\ CacheOff
    /\ EngineOff

\* lines 205-208 for the record
Categorize ==
    /\ call_pc = "call"
    /\ call_ret' = payment_type(call_arg, 1)
    /\ call_pc' = "done"
    /\ UNCHANGED call_arg
    /\ CallStep

NextPayment == Categorize
SpecPayment == PaymentInit /\ [][NextPayment]_vars

\* the text of the record has one of these pieces
HasPiece(W) ==
    /\ "forma_pago_raw" \in call_arg.cols
    /\ ~ call_arg.rows[1].forma_pago_raw.null
    /\ \E j \in 1..Len(call_arg.rows[1].forma_pago_raw.words) :
          call_arg.rows[1].forma_pago_raw.words[j] \in W

-----------------------------------------------------------------------------
(* The verifier's annual totals                                             *)

\* the counted records of a year: source_year when set, else the year of
\* fecha_emision
CountedOf(year) ==
    {i \in NotCancelled :
        (IF all_rows[i].row.source_year # 0
         THEN all_rows[i].row.source_year
         ELSE all_rows[i].row.fecha_year) = year}
\* the units and the hundredths of a field over the counted records of a year
YearUnits(year, field) ==
    SumOver(CountedOf(year),
            [i \in CountedOf(year) |->
                IF all_rows[i].row[field].t = "dec"
                THEN all_rows[i].n * all_rows[i].row[field].u ELSE 0])
YearCents(year, field) ==
    SumOver(CountedOf(year),
            [i \in CountedOf(year) |->
                IF all_rows[i].row[field].t = "dec"
                THEN all_rows[i].n * all_rows[i].row[field].c ELSE 0])
\* the counted records of a year have the reference count and totals
YearIsReference(year) ==
    /\ SumOver(CountedOf(year), [i \in CountedOf(year) |-> all_rows[i].n])
           = expected_annual(year).count
    /\ \A field \in {"facturado", "pagado", "pendiente"} :
          /\ YearCents(year, field) % 100 = expected_annual(year)[field].c
          /\ YearUnits(year, field) + YearCents(year, field) \div 100
                 = expected_annual(year)[field].u

\* C15: test_6 reports PASS exactly when, for each of 2022, 2023, 2024 and
\* 2025, the non-cancelled records of the year (source_year when set, else
\* the first four characters of fecha_emision) have the reference count and
\* the reference totals of facturado, pagado and pendiente; records of other
\* years or of no year change nothing.
C15_AnnualTotals ==
    vg_pc = "done" /\ vg_out.kind = "results" =>
        (vg_out.tests["test_6"] = "PASS" <=> \A y \in {2022, 2023, 2024, 2025} : YearIsReference(y))

\* test_6 passes on a set that holds, besides the reference records, a record
\* of 2021 and a record of no year
C15_Witness ==
    /\ vg_pc = "done"
    /\ vg_out.kind = "results"
    /\ vg_out.tests["test_6"] = "PASS"
    /\ CountedOf(2021) # {}
    /\ CountedOf(0) # {}


-----------------------------------------------------------------------------
(* The weekday analysis                                                     *)

\* the weekday of a calendar date, Monday = 0 ... Sunday = 6
WeekdayOf(y, m, d) ==
    LET shift == <<0, 3, 2, 5, 0, 3, 5, 1, 4, 6, 2, 4>>
        yy == IF m < 3 THEN y - 1 ELSE y
    IN (yy + yy \div 4 - yy \div 100 + yy \div 400 + shift[m] + d + 6) % 7
WeekdayNames ==
    <<"Lunes", "Martes", "Miercoles", "Jueves", "Viernes", "Sabado", "Domingo">>
\* the non-cancelled canonical records of a weekday
OnWeekday(w) ==
    {i \in 1..Len(canon.rows) :
        /\ canon.rows[i].estado # "ANULADO"
        /\ WeekdayOf(canon.rows[i].fecha_emision.y, canon.rows[i].fecha_emision.m,
                     canon.rows[i].fecha_emision.d) = w}
\* the distinct calendar dates among the records S
DatesOf(S) ==
    {<<canon.rows[i].fecha_emision.y, canon.rows[i].fecha_emision.m,
       canon.rows[i].fecha_emision.d>> : i \in S}

\* C16: for each weekday with a non-cancelled record, dow_analysis has one
\* entry, named Lunes ... Domingo for Monday ... Sunday, with facturado the
\* sum over those records, tx_count their number and avg_daily_sales the sum
\* divided by the number of distinct calendar dates among them; a weekday
\* without such a record has no entry.
C16_WeekdayAverages ==
    Answered =>
        /\ \A x \in result.out.dow_analysis : \E w \in 0..6 : x.day = WeekdayNames[w + 1]
        /\ \A w \in 0..6 :
              LET S == OnWeekday(w)
                  items == {x \in result.out.dow_analysis : x.day = WeekdayNames[w + 1]}
              IN IF S = {}
                 THEN items = {}
                 ELSE \E x \in items :
                         /\ items = {x}
                         /\ x.facturado = PlainSum(S, "facturado")
                         /\ x.tx_count = Cardinality(S)
                         /\ x.avg_daily_sales
                                = Frac(PlainSum(S, "facturado"), Cardinality(DatesOf(S)))

\* two non-cancelled records of the same date: tx_count is 2 and the average
\* is the whole sum, not half of it
C16_Witness ==
    /\ Answered
    /\ \E x \in result.out.dow_analysis :
          /\ x.tx_count = 2
          /\ x.facturado > 0
          /\ x.avg_daily_sales = Frac(x.facturado, 1)
          /\ \E w \in 0..6 : Cardinality(OnWeekday(w)) = 2 /\ Cardinality(DatesOf(OnWeekday(w))) = 1


-----------------------------------------------------------------------------
(* When get_cached_df fetches                                               *)

\* request p leaves the test of line 39 in this step
Decides(p) == pc[p] \in {"L39a", "L39b"} /\ pc'[p] \notin {"L39a", "L39b"}
\* request p starts a fetch in this step
StartsFetch(p) == pc[p] # "L22" /\ pc'[p] = "L22"

\* C17: a request calls the fetch exactly when, as it tests line 39, no
\* snapshot is held or its time is more than 600 seconds past the recorded
\* time of the last successful refresh; otherwise it goes on to line 48
\* without a fetch and is served the held snapshot, ending with the no-data
\* error, and still no fetch, when that snapshot is an empty table.
C17_FetchRule ==
    [][\A p \in Req :
          /\ StartsFetch(p) => Decides(p)
          /\ Decides(p) =>
                /\ StartsFetch(p) <=>
                      (_df_cache = NoTable \/ current_time[p] - _last_cache_time > 600)
                /\ ~ StartsFetch(p) => pc'[p] = "L48a"
          /\ pc[p] \in {"L48a", "L48b", "L51"} =>
                /\ pc'[p] \in {pc[p], "L48b", "L51", "done"}
                /\ pc[p] # "done" /\ pc'[p] = "done" =>
                      got'[p] = IF pc[p] = "L51" THEN [status |-> 200, df |-> _df_cache]
                                ELSE [status |-> 404, df |-> NoTable]
                /\ pc[p] = "L48b" /\ pc'[p] # pc[p] =>
                      (pc'[p] = "done" <=> _df_cache.n = 0)]_vars

\* a request made exactly 600 seconds after the refresh that left an empty
\* table has ended with the no-data error, the table and its time untouched
C17_Witness ==
    \E p \in Req :
        /\ pc[p] = "done"
        /\ got[p].status = 404
        /\ current_time[p] - _last_cache_time = 600
        /\ _df_cache # NoTable
        /\ _df_cache.n = 0
        /\ _df_cache.by = 0


-----------------------------------------------------------------------------
(* Concurrent refreshes                                                     *)

\* the requests that are refreshing: fetching, or storing what they fetched
Refreshing == {q \in Req : pc[q] \in {"L22", "L42", "L43"}}

\* C18: nothing keeps a request from refreshing while another one is: a
\* request that finds the snapshot absent or stale starts its own fetch also
\* when another request is refreshing; each fetch that ends stores its own
\* complete table, and from then on the held snapshot is always the complete
\* table of one request's fetch.
C18_NoSingleFlight ==
    [][\A p \in Req :
          /\ /\ Decides(p)
             /\ Refreshing \ {p} # {}
             /\ _df_cache = NoTable \/ current_time[p] - _last_cache_time > 600
             => StartsFetch(p)
          /\ pc[p] = "L42" /\ pc'[p] # "L42" =>
                /\ _df_cache' = fetch_rows[p]
                /\ _df_cache'.by = p
                /\ Complete(_df_cache')
          /\ _df_cache # NoTable /\ _df_cache.by \in Req =>
                /\ _df_cache' # NoTable
                /\ _df_cache'.by \in Req
                /\ Complete(_df_cache')]_vars

\* two requests made at the same time have both ended, each served the table
\* of its own fetch: both refreshed, and the held snapshot is one of the two
C18_Witness ==
    \E p, q \in Req :
        /\ p # q
        /\ pc[p] = "done" /\ pc[q] = "done"
        /\ current_time[p] = current_time[q]
        /\ got[p].status = 200 /\ got[p].df.by = p
        /\ got[q].status = 200 /\ got[q].df.by = q
        /\ _df_cache \in {got[p].df, got[q].df}
        /\ Complete(_df_cache)


-----------------------------------------------------------------------------
(* A fetch that fails                                                       *)

\* the fetch of request p fails in this step
FetchFails(p) == pc[p] = "L22" /\ pc'[p] = "L46"
\* request p leaves the except clause in this step
Handles(p) == pc[p] = "L46" /\ pc'[p] # "L46"

\* C20: a fetch that fails, and the except clause after it, leave the
\* snapshot and the last-refresh time as they are. With a snapshot held the
\* request goes on to line 48 and is served it, and the test of line 39 still
\* holds for a request made next, which fetches again; with no snapshot held
\* the request ends with the 500 error and the cache stays empty.
C20_FailedFetch ==
    [][\A p \in Req :
          /\ FetchFails(p) \/ Handles(p) =>
                /\ _df_cache' = _df_cache
                /\ _last_cache_time' = _last_cache_time
          /\ Handles(p) =>
                IF _df_cache = NoTable
                THEN /\ pc'[p] = "done"
                     /\ got'[p] = [status |-> 500, df |-> NoTable]
                     /\ _df_cache' = NoTable
                ELSE /\ pc'[p] = "L48a"
                     /\ got'[p] = got[p]
                     /\ current_time[p] - _last_cache_time > 600 =>
                           now - _last_cache_time' > 600]_vars

\* a request whose fetch failed has been served the stale table held at the
\* start, and the request made after it is fetching again
C20_Witness ==
    \E p, q \in Req :
        /\ p # q
        /\ pc[p] = "done"
        /\ got[p].status = 200
        /\ got[p].df = _df_cache
        /\ _df_cache.by = 0
        /\ current_time[p] - _last_cache_time > 600
        /\ pc[q] = "L22"
        /\ current_time[q] >= current_time[p]


-----------------------------------------------------------------------------
(* The endpoint verifier and the standalone script                          *)

\* both have run on the fetched set and neither met an unexpected error
BothSettled ==
    /\ vg_pc = "done"
    /\ vg_out.kind = "results"
    /\ rt_out.kind \in {"passed", "assert"}

\* C19: on a fetched set on which neither meets an unexpected error, the
\* endpoint reports PASS for all nine checks exactly when run_tests ends with
\* no assertion failure, and the first assertion that fails in run_tests
\* belongs to a check the endpoint reports as FAIL.
C19_SameNineChecks ==
    BothSettled =>
        /\ (\A t \in TestNames : vg_out.tests[t] = "PASS") <=> rt_out.kind = "passed"
        /\ rt_out.kind = "assert" =>
              /\ rt_out.test \in TestNames
              /\ vg_out.tests[rt_out.test] = "FAIL"

\* the anchor record's comprobante differs: every check before the ninth
\* holds, run_tests stops at the anchor assertion and the endpoint reports
\* test_9 alone as FAIL
C19_Witness ==
    /\ BothSettled
    /\ rt_out = [kind |-> "assert", test |-> "test_9"]
    /\ vg_out.tests["test_9"] = "FAIL"
    /\ \A t \in TestNames \ {"test_9"} : vg_out.tests[t] = "PASS"


-----------------------------------------------------------------------------
(* fetch_all_comprobantes run alone by request 1, against a source whose    *)
(* size changes at will between two page requests                           *)

\* The row counts the source takes: none, less than a page, one page, and
\* around max_rows.
FetchSources == {0, 700, 1000, 50000, 50500, 51000, 60000}

\* lines 16-19: the fetch has begun
FetchInit ==
    /\ _df_cache = NoTable
    /\ _last_cache_time = 0
    /\ now = StartTime
    /\ remote \in FetchSources
    /\ pc = [p \in Req |-> IF p = 1 THEN "L22" ELSE "idle"]
    /\ current_time = [p \in Req |-> IF p = 1 THEN StartTime ELSE 0]
    /\ fetch_rows = [p \in Req |-> IF p = 1 THEN [n |-> 0, last |-> 0, pages |-> 0, by |-> 1]
                                    ELSE NoTable]
    /\ current_start = [p \in Req |-> 0]
    /\ got = [p \in Req |-> Done(0, NoTable)]
    /\ response = [p \in Req |-> 0]
    /\ CleanOff
    /\ VerifyOff
    /\ EngineOff
    /\ CallOff

\* the source table is written between two page requests
SourceWrite ==
    /\ \E n \in FetchSources \ {remote} : remote' = n
    /\ UNCHANGED <<_df_cache, _last_cache_time, now, pc, current_time,
                   fetch_rows, current_start, got>>
    /\ CacheStep

\* one turn of the loop
FetchPage == L22(1)

NextFetch == FetchPage \/ SourceWrite

\* the source answers every page request
SpecFetch == FetchInit /\ [][NextFetch]_vars /\ WF_vars(FetchPage)

\* the fetch of request 1 is in its loop / has left it
InLoop == pc[1] = "L22"
Fetched == pc[1] = "L42"

\* C21: fetch_all_comprobantes ends. While it runs it has received only full
\* pages, the k-th request being for the range that starts at 1000 k; it
\* stops at the first page that is empty or short or once it holds more than
\* 50000 rows, so it makes at most 51 page requests and returns at most 51000
\* rows, all the rows of the pages received.
C21_FetchTerminates ==
    /\ [](InLoop =>
            /\ fetch_rows[1].pages <= 50
            /\ current_start[1] = 1000 * fetch_rows[1].pages
            /\ fetch_rows[1].n = 1000 * fetch_rows[1].pages
            /\ fetch_rows[1].n <= 50000)
    /\ [](Fetched =>
            /\ fetch_rows[1].pages \in 1..51
            /\ fetch_rows[1].last <= 1000
            /\ fetch_rows[1].n = 1000 * (fetch_rows[1].pages - 1) + fetch_rows[1].last
            /\ fetch_rows[1].n <= 51000
            /\ fetch_rows[1].last < 1000 \/ fetch_rows[1].n > 50000)
    /\ <>Fetched

\* the fetch has ended on its 51st page with 51000 rows
C21_Witness ==
    /\ Fetched
    /\ fetch_rows[1].pages = 51
    /\ fetch_rows[1].n = 51000


-----------------------------------------------------------------------------
(* The endpoints /stats/summary, /stats/insights and /stats/transactions:   *)
(* get_cached_df and the rest of the body inside try, and the clause        *)
(* `except Exception` after it. One request is followed.                    *)

\* the status of the HTTPException the except clause raises (lines 81-83):
\* it catches every Exception, the HTTPException of get_cached_df included
except_Exception(raised_status) == 500

\* the statuses the body can end with once get_cached_df has returned a
\* table: the answer of the analytics functions, or an exception in them
after_get_cached_df == {200, 500}

EndpointInit ==
    /\ \/ _df_cache = NoTable /\ _last_cache_time = 0
       \/ /\ \E r \in RemoteSizes : _df_cache = fetch_all_comprobantes(r)
          /\ _last_cache_time = StartTime
    /\ now = StartTime
    /\ remote \in RemoteSizes
    /\ pc = [p \in Req |-> IF p = 1 THEN "idle" ELSE "off"]
    /\ current_time = [p \in Req |-> 0]
    /\ fetch_rows = [p \in Req |-> NoTable]
    /\ current_start = [p \in Req |-> 0]
    /\ got = [p \in Req |-> Done(0, NoTable)]
    /\ response = [p \in Req |-> 0]
    /\ CleanOff
    /\ VerifyOff
    /\ EngineOff
    /\ CallOff

\* lines 67-83 (and 100-112, 126-137) after the call of get_cached_df
Respond(p) ==
    /\ pc[p] = "done"
    /\ pc' = [pc EXCEPT ![p] = "answered"]
    /\ IF got[p].status = 200
       THEN \E s \in after_get_cached_df : response' = [response EXCEPT ![p] = s]
       ELSE response' = [response EXCEPT ![p] = except_Exception(got[p].status)]
    /\ UNCHANGED <<_df_cache, _last_cache_time, now, remote, current_time,
                   fetch_rows, current_start, got>>
    /\ UNCHANGED <<cleanVars, verifyVars, engineVars, callVars>>

NextEndpoint ==
    \/ \E p \in Req : \/ L37(p) \/ L39a(p) \/ L39b(p) \/ L22(p) \/ L22Raises(p)
                       \/ L42(p) \/ L43(p) \/ L46(p) \/ L48a(p) \/ L48b(p) \/ L51(p)
                       \/ Respond(p)
    \/ Tick
    \/ RemoteWrite

SpecEndpoint == EndpointInit /\ [][NextEndpoint]_vars

\* C22: the status code get_cached_df chose, 404 for no data and 500 for a
\* failed fetch with no snapshot, is the status code the endpoint answers
\* with.
C22_StatusReachesCaller ==
    \A p \in Req :
        pc[p] = "answered" /\ got[p].status \in {404, 500} =>
            response[p] = got[p].status


-----------------------------------------------------------------------------
(* Every record in one yearly and one monthly group                         *)

\* the monthly groups of a yearly group
MonthsOf(item) ==
    {x \in result.out.monthly_seasonality :
        /\ x.year = item.year
        /\ x.estado = item.estado
        /\ "tipo" \in canon.cols => x.tipo = item.tipo}

\* C23: every canonical record, one with a null estado or tipo included, is
\* counted in one group of kpis_by_year and one of monthly_seasonality: the
\* tx_count of either list add up to data_quality.total_records, and the
\* monthly groups of a (year, estado[, tipo]) add up to its yearly group in
\* tx_count and facturado.
C23_EveryRecordGrouped ==
    Answered =>
        /\ SumOver(result.out.kpis_by_year,
                   [x \in result.out.kpis_by_year |-> x.tx_count])
               = result.out.data_quality.total_records
        /\ SumOver(result.out.monthly_seasonality,
                   [x \in result.out.monthly_seasonality |-> x.tx_count])
               = result.out.data_quality.total_records
        /\ \A item \in result.out.kpis_by_year :
              /\ SumOver(MonthsOf(item), [x \in MonthsOf(item) |-> x.tx_count])
                     = item.tx_count
              /\ SumOver(MonthsOf(item), [x \in MonthsOf(item) |-> x.facturado])
                     = item.facturado

\* the same without the records that have a null estado or tipo: holds
C23_NonNullGrouped ==
    (Answered /\ \A i \in 1..Len(canon.rows) :
                    /\ canon.rows[i].estado # PyNone
                    /\ "tipo" \in canon.cols => canon.rows[i].tipo # PyNone)
        => C23_EveryRecordGrouped

====
